---- MODULE Spec2Model ----
(***************************************************************************)
(* Horizon - simulateur de retraite SPP.                                   *)
(*                                                                         *)
(* Model of the calculation core (js/modules/duree.js, ages.js,            *)
(* pension.js, nbi.js, pfr.js, surcote.js, js/config/parametres.js) and of *)
(* the orchestration in js/app.js (effectuerCalculs).                      *)
(*                                                                         *)
(* Conventions                                                             *)
(*  - a Date is a whole calendar date [a, m, j] (m in 1..12); null is      *)
(*    DateNulle.  The program only builds dates at a fixed time of day.    *)
(*  - amounts in euros are integers in cents (every amount the program     *)
(*    returns went through Math.round(x * 100) / 100); the real number     *)
(*    under a Math.round is computed exactly, as a quotient of integers.   *)
(*  - a rate is a fraction [n, d] (n / d), d > 0.                          *)
(*  - quotite (work fraction) is an integer percentage.                    *)
(*  - a JavaScript number that may be NaN or Infinity is a record          *)
(*    [k |-> "num" | "NaN" | "Infinity", v |-> value].                     *)
(***************************************************************************)
EXTENDS Integers, Sequences, FiniteSets, TLC

\* formulaire:   the fields of the simulator form (DOM)
\* appState:     the application state of app.js
\* conteneur:    what the results container shows
\* notification: the type of the last notification shown
\* appel, retour: a direct call of a function of the core and what it returns
VARIABLES formulaire, appState, conteneur, notification, appel, retour, horloge,
          formState, minuteries, exportation

vars == <<formulaire, appState, conteneur, notification, appel, retour, horloge,
          formState, minuteries, exportation>>

---------------------------------------------------------------------------
(* Integer helpers                                                         *)

Min(x, y) == IF x <= y THEN x ELSE y

Max(x, y) == IF x >= y THEN x ELSE y

\* Math.ceil(n / d) for n >= 0, d > 0
CeilDiv(n, d) == (n + d - 1) \div d

\* <<q, r>> with x * y = q * z + r and 0 <= r < z, without forming x * y
\* (the product does not fit the checker's integers); x, y >= 0, z > 0
RECURSIVE MulDivRem(_, _, _)
MulDivRem(x, y, z) ==
  IF y = 0 THEN <<0, 0>>
  ELSE LET h   == MulDivRem(x, y \div 2, z)
           r2  == 2 * h[2]
           q2  == 2 * h[1] + (IF r2 >= z THEN 1 ELSE 0)
           r2n == IF r2 >= z THEN r2 - z ELSE r2
           xa  == IF y % 2 = 1 THEN x ELSE 0
           r3  == r2n + (xa % z)
       IN  <<q2 + (xa \div z) + (IF r3 >= z THEN 1 ELSE 0),
             IF r3 >= z THEN r3 - z ELSE r3>>

\* Math.round(x * y / z) (round half up), x, y >= 0, z > 0
MathRoundMulDiv(x, y, z) ==
  LET qr == MulDivRem(x, y, z)
  IN  qr[1] + (IF 2 * qr[2] >= z THEN 1 ELSE 0)

\* Math.ceil(x * y / z), x, y >= 0, z > 0
MathCeilMulDiv(x, y, z) ==
  LET qr == MulDivRem(x, y, z)
  IN  qr[1] + (IF qr[2] > 0 THEN 1 ELSE 0)

RECURSIVE Pgcd(_, _)
Pgcd(x, y) == IF y = 0 THEN x ELSE Pgcd(y, x % y)

\* a fraction n / d, d > 0
Frac(n, d) == [n |-> n, d |-> d]

\* the same fraction in lowest terms
Reduire(f) ==
  LET g == Pgcd(f.n, f.d)
  IN  IF g = 0 THEN f ELSE Frac(f.n \div g, f.d \div g)

\* product of two fractions, cross-reduced first
FracMul(f, g) ==
  LET a == Reduire(Frac(f.n, g.d))
      b == Reduire(Frac(g.n, f.d))
  IN  Frac(a.n * b.n, a.d * b.d)

\* a JavaScript number that may be NaN or Infinity
Num(v) == [k |-> "num", v |-> v]

NaN == [k |-> "NaN", v |-> 0]

Infini == [k |-> "Infinity", v |-> 0]

estFini(x) == x.k = "num"

\* an optional argument that the caller left out (undefined)
Indefini == 0 - 1

\* x || y on numbers (undefined and 0 are falsy)
Ou(x, y) == IF x = Indefini \/ x = 0 THEN y ELSE x

---------------------------------------------------------------------------
(* JavaScript Date, restricted to whole days                               *)

Date(a, m, j) == [a |-> a, m |-> m, j |-> j]

DateNulle == [a |-> 0, m |-> 0, j |-> 0]

estNulle(d) == d.a = 0

Bissextile(a) == (a % 4 = 0 /\ a % 100 # 0) \/ a % 400 = 0

JoursDuMois(a, m) ==
  IF m = 2 THEN (IF Bissextile(a) THEN 29 ELSE 28)
  ELSE IF m \in {4, 6, 9, 11} THEN 30 ELSE 31

\* order of getTime() on whole days
Ord(d) == d.a * 10000 + d.m * 100 + d.j

\* the date the Date object holds after its fields were set to year a,
\* month index idx (0-based, may exceed 11) and day j: a day past the end
\* of the month rolls over into the next month
Normaliser(a, idx, j) ==
  LET a2  == a + (idx \div 12)
      m2  == (idx % 12) + 1
      dim == JoursDuMois(a2, m2)
  IN  IF j <= dim THEN Date(a2, m2, j)
      ELSE IF m2 = 12 THEN Date(a2 + 1, 1, j - dim)
      ELSE Date(a2, m2 + 1, j - dim)

\* d.setFullYear(d.getFullYear() + n)
setFullYearPlus(d, n) == Normaliser(d.a + n, d.m - 1, d.j)

\* d.setMonth(d.getMonth() + n), n >= 0
setMonthPlus(d, n) == Normaliser(d.a, d.m - 1 + n, d.j)

\* number of days from 0000-03-01 to d (getTime() / 86400000 up to a constant)
JoursAbsolus(d) ==
  LET a2 == IF d.m <= 2 THEN d.a - 1 ELSE d.a
      m2 == IF d.m <= 2 THEN d.m + 9 ELSE d.m - 3
  IN  365 * a2 + (a2 \div 4) - (a2 \div 100) + (a2 \div 400)
      + ((153 * m2 + 2) \div 5) + d.j - 1

\* Math.floor((d2.getTime() - d1.getTime()) / (365.25 * 24 * 60 * 60 * 1000))
AnneesJulienne(d1, d2) ==
  LET n == 4 * (JoursAbsolus(d2) - JoursAbsolus(d1))
  IN  IF n >= 0 THEN n \div 1461 ELSE -((-n + 1460) \div 1461)

---------------------------------------------------------------------------
(* js/utils/dates.js                                                       *)

\* age in whole years at dateReference, by year / month / day comparison
calculerAge(dateNaissance, dateReference) ==
  LET brut == dateReference.a - dateNaissance.a
  IN  IF dateReference.m < dateNaissance.m
         \/ (dateReference.m = dateNaissance.m /\ dateReference.j < dateNaissance.j)
      THEN brut - 1 ELSE brut

\* whole months from debut to fin, day-of-month aware, never negative
calculerMoisEntreDates(debut, fin) ==
  LET brut == (fin.a - debut.a) * 12 + (fin.m - debut.m)
             - (IF fin.j < debut.j THEN 1 ELSE 0)
  IN  Max(0, brut)

calculerTrimestresEntreDates(debut, fin) ==
  calculerMoisEntreDates(debut, fin) \div 3

dateAtteindreAge(dateNaissance, age) == setFullYearPlus(dateNaissance, age)

---------------------------------------------------------------------------
(* js/config/parametres.js                                                 *)

AGES_OUVERTURE_DROITS == 57

AGES_ANNULATION_DECOTE == 62

AGES_LIMITE_ACTIVITE == 62

\* each tranche: birth dates debut..fin (null bounds replaced as the lookup
\* does: 1900-01-01 and 2100-12-31) and the legal age in years and months
AGE_LEGAL_ACTIF ==
  << [debut |-> Date(1900, 1, 1), fin |-> Date(1966, 8, 31),  age |-> 57, mois |-> 0],
     [debut |-> Date(1966, 9, 1), fin |-> Date(1966, 12, 31), age |-> 57, mois |-> 3],
     [debut |-> Date(1967, 1, 1), fin |-> Date(1967, 12, 31), age |-> 57, mois |-> 6],
     [debut |-> Date(1968, 1, 1), fin |-> Date(1968, 12, 31), age |-> 57, mois |-> 9],
     [debut |-> Date(1969, 1, 1), fin |-> Date(1969, 12, 31), age |-> 58, mois |-> 0],
     [debut |-> Date(1970, 1, 1), fin |-> Date(1970, 12, 31), age |-> 58, mois |-> 3],
     [debut |-> Date(1971, 1, 1), fin |-> Date(1971, 12, 31), age |-> 58, mois |-> 6],
     [debut |-> Date(1972, 1, 1), fin |-> Date(1972, 12, 31), age |-> 58, mois |-> 9],
     [debut |-> Date(1973, 1, 1), fin |-> Date(2100, 12, 31), age |-> 59, mois |-> 0] >>

AGE_LEGAL_SEDENTAIRE ==
  << [debut |-> Date(1900, 1, 1), fin |-> Date(1961, 8, 31),  age |-> 62, mois |-> 0],
     [debut |-> Date(1961, 9, 1), fin |-> Date(1961, 12, 31), age |-> 62, mois |-> 3],
     [debut |-> Date(1962, 1, 1), fin |-> Date(1962, 12, 31), age |-> 62, mois |-> 6],
     [debut |-> Date(1963, 1, 1), fin |-> Date(1963, 12, 31), age |-> 62, mois |-> 9],
     [debut |-> Date(1964, 1, 1), fin |-> Date(1964, 12, 31), age |-> 63, mois |-> 0],
     [debut |-> Date(1965, 1, 1), fin |-> Date(1965, 12, 31), age |-> 63, mois |-> 3],
     [debut |-> Date(1966, 1, 1), fin |-> Date(1966, 12, 31), age |-> 63, mois |-> 6],
     [debut |-> Date(1967, 1, 1), fin |-> Date(1967, 12, 31), age |-> 63, mois |-> 9],
     [debut |-> Date(1968, 1, 1), fin |-> Date(2100, 12, 31), age |-> 64, mois |-> 0] >>

DUREE_ASSURANCE_PAR_GENERATION ==
  [an \in 1960..1973 |->
     CASE an = 1960 -> 167 [] an = 1961 -> 168 [] an = 1962 -> 169
       [] an = 1963 -> 170 [] an = 1964 -> 171 [] OTHER -> 172]

DUREE_ASSURANCE_DEFAUT == 172

SERVICES_DUREE_MIN_SERVICES_ACTIFS == 68

SERVICES_DUREE_MIN_PENSION == 8

TAUX_PLEIN == 75

\* TAUX.DECOTE_PAR_TRIMESTRE and TAUX.SURCOTE_PAR_TRIMESTRE are 1.25 %:
\* kept as the number of quarters that make 100 %
TRIMESTRES_POUR_CENT_POUR_CENT == 80

MAJORATION_SPV_SEUILS ==
  << [annees |-> 10, trimestres |-> 1],
     [annees |-> 20, trimestres |-> 2],
     [annees |-> 25, trimestres |-> 3] >>

BONIFICATIONS_ENFANT_AVANT_2004 == 4

\* BONIFICATIONS.CINQUIEME_ACTIF.ratio is 1 / 5
BONIFICATIONS_CINQUIEME_DIVISEUR == 5

getDureeAssuranceRequise(anneeNaissance) ==
  IF anneeNaissance \in DOMAIN DUREE_ASSURANCE_PAR_GENERATION
  THEN DUREE_ASSURANCE_PAR_GENERATION[anneeNaissance]
  ELSE DUREE_ASSURANCE_DEFAUT

\* the loop keeps the last threshold that is met
getMajorationSPV(anneesSPV) ==
  LET atteints == {i \in DOMAIN MAJORATION_SPV_SEUILS :
                     anneesSPV >= MAJORATION_SPV_SEUILS[i].annees}
  IN  IF atteints = {} THEN 0
      ELSE MAJORATION_SPV_SEUILS[CHOOSE i \in atteints :
                                   \A k \in atteints : k <= i].trimestres

\* first tranche that holds the birth date, else the default
AgeLegal(table, defaut, dateNaissance) ==
  LET dedans == {i \in DOMAIN table :
                   /\ Ord(dateNaissance) >= Ord(table[i].debut)
                   /\ Ord(dateNaissance) <= Ord(table[i].fin)}
  IN  IF dedans = {} THEN defaut
      ELSE LET i == CHOOSE k \in dedans : \A l \in dedans : k <= l
           IN  [ans |-> table[i].age, mois |-> table[i].mois]

getAgeLegalActif(dateNaissance) ==
  AgeLegal(AGE_LEGAL_ACTIF, [ans |-> 59, mois |-> 0], dateNaissance)

getAgeLegalSedentaire(dateNaissance) ==
  AgeLegal(AGE_LEGAL_SEDENTAIRE, [ans |-> 64, mois |-> 0], dateNaissance)

---------------------------------------------------------------------------
(* js/modules/duree.js                                                     *)

\* The pairs <<n, quotite>> for which the IEEE-754 double product
\* n * (quotite / 100) falls just below the exact integer value, so that
\* Math.floor loses one (e.g. 90 * 0.7 = 62.99999999999999).  Complete for
\* quotite in {50, 70, 80, 100} and n < 300.
ProduitDoubleSousEntier == {<<90, 70>>, <<170, 70>>, <<180, 70>>}

\* Math.floor(n * quotite) in double arithmetic
MathFloorProduit(n, quotite) ==
  ((n * quotite) \div 100)
  - (IF <<n, quotite>> \in ProduitDoubleSousEntier THEN 1 ELSE 0)

calculerTrimestresServicesEffectifs(dateEntree, dateFin, quotite) ==
  IF estNulle(dateEntree) \/ estNulle(dateFin) \/ Ord(dateFin) <= Ord(dateEntree)
  THEN 0
  ELSE MathFloorProduit(calculerTrimestresEntreDates(dateEntree, dateFin), quotite)

\* the bonus lost, instead of capped, once it passes 20 quarters
calculerBonificationCinquiemePerdueAuPlafond(trimestresServicesActifs) ==
  IF trimestresServicesActifs \div BONIFICATIONS_CINQUIEME_DIVISEUR > 20 THEN 0
  ELSE trimestresServicesActifs \div BONIFICATIONS_CINQUIEME_DIVISEUR

\* one quarter for five, without the cap of five years
calculerBonificationCinquiemeSansPlafond(trimestresServicesActifs) ==
  trimestresServicesActifs \div BONIFICATIONS_CINQUIEME_DIVISEUR

calculerBonificationCinquieme(trimestresServicesActifs) ==
  Min(trimestresServicesActifs \div BONIFICATIONS_CINQUIEME_DIVISEUR, 20)

calculerBonificationEnfants(nombreEnfants) ==
  IF nombreEnfants <= 0 THEN 0
  ELSE nombreEnfants * BONIFICATIONS_ENFANT_AVANT_2004

verifierConditionServicesActifs(trimestresServicesActifs) ==
  trimestresServicesActifs >= SERVICES_DUREE_MIN_SERVICES_ACTIFS

verifierConditionDureePension(trimestresServices) ==
  trimestresServices >= SERVICES_DUREE_MIN_PENSION

calculerDurees(donnees, anneeNaissance) ==
  LET trimServicesMilitaires ==
        IF donnees.servicesMilitaires # "aucun"
        THEN donnees.trimestresServicesMilitaires ELSE 0
      ResultatDuree(trimestresServicesEffectifs, trimestresBonificationCinquieme,
                    trimestresBonificationEnfants, trimestresMajorationSPV,
                    trimestresBonificationMilitaire, trimestresRequis) ==
        LET totalServicesActifs == trimestresServicesEffectifs + trimServicesMilitaires
            trimestresLiquidables ==
              trimestresServicesEffectifs + trimestresBonificationCinquieme
              + trimestresBonificationEnfants + trimestresMajorationSPV
              + trimServicesMilitaires + trimestresBonificationMilitaire
            trimestresAssuranceTotale ==
              trimestresLiquidables + donnees.trimestresAutresRegimes
        IN  [trimestresServicesEffectifs     |-> trimestresServicesEffectifs,
             trimestresBonificationCinquieme |-> trimestresBonificationCinquieme,
             trimestresBonificationEnfants   |-> trimestresBonificationEnfants,
             trimestresMajorationSPV         |-> trimestresMajorationSPV,
             trimestresServicesMilitaires    |-> trimServicesMilitaires,
             trimestresBonificationMilitaire |-> trimestresBonificationMilitaire,
             totalServicesActifs             |-> totalServicesActifs,
             trimestresLiquidables           |-> trimestresLiquidables,
             trimestresAutresRegimes         |-> donnees.trimestresAutresRegimes,
             trimestresAssuranceTotale       |-> trimestresAssuranceTotale,
             trimestresRequis                |-> trimestresRequis,
             ecartTauxPlein    |-> trimestresAssuranceTotale - trimestresRequis,
             conditionServicesActifs |->
               verifierConditionServicesActifs(totalServicesActifs),
             conditionDureePension |->
               verifierConditionDureePension(totalServicesActifs)]
      Services(trimestresServicesEffectifs) ==
        ResultatDuree(trimestresServicesEffectifs,
                      calculerBonificationCinquieme(trimestresServicesEffectifs),
                      calculerBonificationEnfants(donnees.enfantsAvant2004),
                      getMajorationSPV(donnees.anneesSPV),
                      calculerBonificationCinquieme(trimServicesMilitaires),
                      getDureeAssuranceRequise(anneeNaissance))
  IN  Services(calculerTrimestresServicesEffectifs(donnees.dateEntreeSPP,
                                                   donnees.dateDepart, donnees.quotite))

\* the DonneesServices that ages.js and app.js build from a DonneesDepart
donneesServices(donnees, dateDepart) ==
  [dateEntreeSPP                |-> donnees.dateEntreeSPP,
   dateDepart                   |-> dateDepart,
   quotite                      |-> donnees.quotite,
   trimestresAutresRegimes      |-> donnees.trimestresAutresRegimes,
   anneesSPV                    |-> donnees.anneesSPV,
   enfantsAvant2004             |-> donnees.enfantsAvant2004,
   servicesMilitaires           |-> donnees.servicesMilitaires,
   trimestresServicesMilitaires |-> donnees.trimestresServicesMilitaires]

---------------------------------------------------------------------------
(* js/modules/ages.js                                                      *)

dateAtteindreAgeAvecMois(dateNaissance, annees, mois) ==
  setMonthPlus(setFullYearPlus(dateNaissance, annees), mois)

\* the opening date, never before the day the simulation runs
calculerDateOuvertureDepuisAujourdhui(dateNaissance) ==
  LET ageLegal == getAgeLegalActif(dateNaissance)
      dateOuverture == dateAtteindreAgeAvecMois(dateNaissance, ageLegal.ans, ageLegal.mois)
  IN  IF Ord(dateOuverture) > Ord(horloge) THEN dateOuverture ELSE horloge

calculerDateOuvertureDroits(dateNaissance) ==
  LET ageLegal == getAgeLegalActif(dateNaissance)
  IN  dateAtteindreAgeAvecMois(dateNaissance, ageLegal.ans, ageLegal.mois)

calculerDateAnnulationDecote(dateNaissance) ==
  LET ageLegal == getAgeLegalSedentaire(dateNaissance)
  IN  dateAtteindreAgeAvecMois(dateNaissance, ageLegal.ans, ageLegal.mois)

calculerDateLimite(dateNaissance) ==
  dateAtteindreAge(dateNaissance, AGES_LIMITE_ACTIVITE)

verifierEligibiliteAgeAnticipe(donnees) ==
  LET dateOuverture == calculerDateOuvertureDroits(donnees.dateNaissance)
      trimestresADateOuverture ==
        calculerTrimestresEntreDates(donnees.dateEntreeSPP, dateOuverture)
      trimestresServicesMilitaires == donnees.trimestresServicesMilitaires
      totalServicesActifs == trimestresADateOuverture + trimestresServicesMilitaires
      trimestresRestants ==
        SERVICES_DUREE_MIN_SERVICES_ACTIFS - trimestresServicesMilitaires
      anneesRestantes ==
        IF trimestresRestants <= 0 THEN 0 ELSE CeilDiv(trimestresRestants, 4)
  IN  IF totalServicesActifs >= SERVICES_DUREE_MIN_SERVICES_ACTIFS
      THEN [eligible |-> TRUE, dateEligibilite |-> dateOuverture]
      ELSE [eligible |-> FALSE,
            dateEligibilite |-> setFullYearPlus(donnees.dateEntreeSPP, anneesRestantes)]

\* The pairs <<k, quotite>> for which the double (k / (quotite / 100)) * 3
\* falls just above the exact integer value, so that Math.ceil gains one
\* (e.g. (21 / 0.7) * 3 = 90.00000000000001).  Complete for quotite in
\* {50, 70, 80, 100} and k < 300.
QuotientDoubleSurEntier == {<<21, 70>>, <<42, 70>>, <<84, 70>>,
                            <<161, 70>>, <<168, 70>>, <<175, 70>>}

\* the months of a full-time career, whatever the work fraction
MathMoisPleinTemps(trimestres, quotite) == trimestres * 3

\* Math.ceil((trimestres / quotite) * 3) in double arithmetic
MathCeilMois(trimestres, quotite) ==
  CeilDiv(trimestres * 300, quotite)
  + (IF <<trimestres, quotite>> \in QuotientDoubleSurEntier THEN 1 ELSE 0)

ResultatDateTauxPlein(date, parDuree, manquants) ==
  [date |-> date, atteintParDuree |-> parDuree, atteintParAge |-> ~parDuree,
   trimestresManquants |-> manquants]

calculerDateTauxPlein(donnees) ==
  LET anneeNaissance == donnees.dateNaissance.a
      trimestresRequis == getDureeAssuranceRequise(anneeNaissance)
      quotite == IF donnees.quotite = 0 THEN 100 ELSE donnees.quotite
      \* trimestresAssuranceTotale of calculerDurees at a departure date
      assuranceA(dateDepart) ==
        calculerDurees(donneesServices(donnees, dateDepart),
                       anneeNaissance).trimestresAssuranceTotale
      ParAge(dateAnnulationDecote) ==
        ResultatDateTauxPlein(dateAnnulationDecote, FALSE,
                              Max(0, trimestresRequis - assuranceA(dateAnnulationDecote)))
      \* the second estimate is returned without a new calculerDurees
      Ajuster(dateTauxPleinEstimee, assuranceEstimee, dateAnnulationDecote, parAge) ==
        LET trimestresEncoreManquants == trimestresRequis - assuranceEstimee
            moisSupplementaires == MathCeilMois(trimestresEncoreManquants, quotite)
            dateAjustee == setMonthPlus(dateTauxPleinEstimee, moisSupplementaires)
        IN  IF assuranceEstimee >= trimestresRequis
            THEN ResultatDateTauxPlein(dateTauxPleinEstimee, TRUE, 0)
            ELSE IF Ord(dateAjustee) <= Ord(dateAnnulationDecote)
            THEN ResultatDateTauxPlein(dateAjustee, TRUE, 0)
            ELSE parAge
      Verifier(dateTauxPleinEstimee, dateAnnulationDecote, parAge) ==
        IF Ord(dateTauxPleinEstimee) <= Ord(dateAnnulationDecote)
        THEN Ajuster(dateTauxPleinEstimee, assuranceA(dateTauxPleinEstimee),
                     dateAnnulationDecote, parAge)
        ELSE parAge
      Estimer(dateOuverture, assuranceOuverture, dateAnnulationDecote, parAge) ==
        LET trimestresManquantsOuverture == trimestresRequis - assuranceOuverture
            moisNecessaires == MathCeilMois(trimestresManquantsOuverture, quotite)
        IN  IF assuranceOuverture >= trimestresRequis
            THEN ResultatDateTauxPlein(dateOuverture, TRUE, 0)
            ELSE Verifier(setMonthPlus(dateOuverture, moisNecessaires),
                          dateAnnulationDecote, parAge)
      Depuis(dateOuverture, dateAnnulationDecote) ==
        Estimer(dateOuverture, assuranceA(dateOuverture), dateAnnulationDecote,
                ParAge(dateAnnulationDecote))
  IN  Depuis(calculerDateOuvertureDroits(donnees.dateNaissance),
             calculerDateAnnulationDecote(donnees.dateNaissance))

\* the month-by-month search of the earlier calculerDateTauxPlein: the first
\* dateTest, stepping by setMonth(+1) up to dateFin, at which calculerDurees
\* counts the required quarters
RECURSIVE rechercheMoisParMois(_, _, _)
rechercheMoisParMois(donnees, dateTest, dateFin) ==
  LET anneeNaissance == donnees.dateNaissance.a
      resultatDuree == calculerDurees(donneesServices(donnees, dateTest), anneeNaissance)
  IN  IF Ord(dateTest) > Ord(dateFin) THEN [trouve |-> FALSE]
      ELSE IF resultatDuree.trimestresAssuranceTotale
              >= getDureeAssuranceRequise(anneeNaissance)
      THEN [trouve |-> TRUE, date |-> dateTest]
      ELSE rechercheMoisParMois(donnees, setMonthPlus(dateTest, 1), dateFin)

\* Math.min(75, (trimestresLiquidables / trimestresRequis) * 75), as a fraction
tauxScenario(trimestresLiquidables, trimestresRequis) ==
  [n |-> Min(75 * trimestresRequis, trimestresLiquidables * 75),
   d |-> trimestresRequis]

\* the full-rate scenario alone, and only when the duration is reached
scenarioTauxPleinParDuree(donnees) ==
  LET resultat == calculerDateTauxPlein(donnees)
  IN  IF resultat.atteintParDuree
      THEN <<[type |-> "taux_plein", date |-> resultat.date]>>
      ELSE << >>

genererScenariosDepart(donnees) ==
  LET anneeNaissance == donnees.dateNaissance.a
      trimestresRequis == getDureeAssuranceRequise(anneeNaissance)
      dureesA(dateDepart) ==
        calculerDurees(donneesServices(donnees, dateDepart), anneeNaissance)
      \* scenario 1: earliest departure
      ScenarioAuPlusTot(dateAuPlusTot, resultatAuPlusTot) ==
        [type |-> "anticipé",
         date |-> dateAuPlusTot,
         age |-> calculerAge(donnees.dateNaissance, dateAuPlusTot),
         trimestresLiquidables |-> resultatAuPlusTot.trimestresLiquidables,
         trimestresAssurance |-> resultatAuPlusTot.trimestresAssuranceTotale,
         tauxLiquidation |->
           tauxScenario(resultatAuPlusTot.trimestresLiquidables, trimestresRequis),
         decote |-> resultatAuPlusTot.trimestresAssuranceTotale < trimestresRequis,
         surcote |-> FALSE]
      AuPlusTot(dateAuPlusTot) == ScenarioAuPlusTot(dateAuPlusTot, dureesA(dateAuPlusTot))
      Eligibilite(eligibilite) ==
        AuPlusTot(IF eligibilite.eligible
                  THEN calculerDateOuvertureDroits(donnees.dateNaissance)
                  ELSE eligibilite.dateEligibilite)
      \* scenario 2: full rate
      ScenarioTauxPlein(resultatDateTauxPlein, resultatTauxPlein) ==
        [type |-> "taux_plein",
         date |-> resultatDateTauxPlein.date,
         age |-> calculerAge(donnees.dateNaissance, resultatDateTauxPlein.date),
         trimestresLiquidables |-> resultatTauxPlein.trimestresLiquidables,
         trimestresAssurance |-> resultatTauxPlein.trimestresAssuranceTotale,
         tauxLiquidation |->
           tauxScenario(resultatTauxPlein.trimestresLiquidables, trimestresRequis),
         decote |-> FALSE,
         surcote |-> FALSE,
         tauxPleinParDuree |-> resultatDateTauxPlein.atteintParDuree,
         tauxPleinParAge |-> resultatDateTauxPlein.atteintParAge,
         trimestresManquants |-> resultatDateTauxPlein.trimestresManquants]
      \* scenario 3: age limit
      ScenarioLimite(dateLimite, resultatLimite, dateTauxPlein) ==
        LET surcoteLimite ==
              /\ resultatLimite.trimestresAssuranceTotale > trimestresRequis
              /\ Ord(dateLimite) > Ord(dateTauxPlein)
        IN  [type |-> "limite",
             date |-> dateLimite,
             age |-> calculerAge(donnees.dateNaissance, dateLimite),
             trimestresLiquidables |-> resultatLimite.trimestresLiquidables,
             trimestresAssurance |-> resultatLimite.trimestresAssuranceTotale,
             tauxLiquidation |->
               tauxScenario(resultatLimite.trimestresLiquidables, trimestresRequis),
             decote |-> FALSE,
             surcote |-> surcoteLimite,
             trimestresSurcote |->
               IF surcoteLimite
               THEN Max(0, resultatLimite.trimestresAssuranceTotale - trimestresRequis)
               ELSE 0]
      Limite(dateLimite, dateTauxPlein) ==
        ScenarioLimite(dateLimite, dureesA(dateLimite), dateTauxPlein)
      Suite(resultatDateTauxPlein) ==
        << ScenarioTauxPlein(resultatDateTauxPlein, dureesA(resultatDateTauxPlein.date)),
           Limite(calculerDateLimite(donnees.dateNaissance), resultatDateTauxPlein.date) >>
  IN  <<Eligibilite(verifierEligibiliteAgeAnticipe(donnees))>>
      \o Suite(calculerDateTauxPlein(donnees))

\* the reduction quarters without the cap of 20
calculerTrimestresDecoteSansPlafond(dateNaissance, dateDepart, trimestresAssurance, trimestresRequis) ==
  IF calculerAge(dateNaissance, dateDepart) >= AGES_ANNULATION_DECOTE THEN 0
  ELSE Min(Max(0, trimestresRequis - trimestresAssurance),
           calculerTrimestresEntreDates(dateDepart,
                                        calculerDateAnnulationDecote(dateNaissance)))

calculerTrimestresDecote(dateNaissance, dateDepart, trimestresAssurance, trimestresRequis) ==
  LET ageDepart == calculerAge(dateNaissance, dateDepart)
      trimestresManquantsDuree == Max(0, trimestresRequis - trimestresAssurance)
      dateAnnulation == calculerDateAnnulationDecote(dateNaissance)
      trimestresManquantsAge == calculerTrimestresEntreDates(dateDepart, dateAnnulation)
      trimestresDecote == Min(trimestresManquantsDuree, trimestresManquantsAge)
  IN  IF ageDepart >= AGES_ANNULATION_DECOTE THEN 0
      ELSE Min(trimestresDecote, 20)

---------------------------------------------------------------------------
(* js/config/parametres.js: amounts and rates                              *)

\* POINT_INDICE.VALEUR_MENSUELLE = 4.92278 euros, in 1e-5 euro
POINT_INDICE_VALEUR_MENSUELLE == 492278

\* POINT_INDICE.VALEUR_ANNUELLE (getter), in 1e-5 euro
POINT_INDICE_VALEUR_ANNUELLE == POINT_INDICE_VALEUR_MENSUELLE * 12

\* PFR.TAUX_PRIME_FEU, percent
PFR_TAUX_PRIME_FEU == 25

\* PFR.PLAFOND_ASSIETTE_RAFP, percent
PFR_PLAFOND_ASSIETTE_RAFP == 20

\* PFR.TAUX_COTISATION_RAFP, percent
PFR_TAUX_COTISATION_RAFP == 5

\* PFR.VALEUR_ACQUISITION_POINT_RAFP = 1.4596 euros, in 1e-4 euro
PFR_VALEUR_ACQUISITION_POINT_RAFP == 14596

\* PFR.VALEUR_SERVICE_POINT_RAFP = 0.05671 euro, in 1e-5 euro
PFR_VALEUR_SERVICE_POINT_RAFP == 5671

PFR_ANNEE_CREATION_RAFP == 2005

\* COEFFICIENTS_RAFP_AGE, in hundredths
COEFFICIENTS_RAFP_AGE ==
  [age \in 55..67 |->
     CASE age = 55 -> 76  [] age = 56 -> 80  [] age = 57 -> 84  [] age = 58 -> 88
       [] age = 59 -> 92  [] age = 60 -> 96  [] age = 61 -> 98  [] age = 62 -> 100
       [] age = 63 -> 104 [] age = 64 -> 108 [] age = 65 -> 112 [] age = 66 -> 118
       [] OTHER -> 124]

getCoefficientRAFPAge(ageDepart) ==
  IF ageDepart \in DOMAIN COEFFICIENTS_RAFP_AGE THEN COEFFICIENTS_RAFP_AGE[ageDepart]
  ELSE IF ageDepart < 55 THEN 72
  ELSE IF ageDepart > 67 THEN 130
  ELSE 100

NBI_DUREE_MIN_PERCEPTION == 1

NBI_DUREE_INTEGRATION_COMPLETE == 15

\* MINIMUM_GARANTI.MONTANT_MENSUEL_2026 = 1367.51 euros, in cents
MINIMUM_GARANTI_MONTANT_MENSUEL_2026 == 136751

\* COTISATIONS.CSG 8.30 %, CRDS 0.50 %, CASA 0.30 %, in hundredths of a percent
COTISATIONS_CSG == 830

COTISATIONS_CRDS == 50

COTISATIONS_CASA == 30

ECHELLE_INDICIAIRE_MIN == 367

ECHELLE_INDICIAIRE_MAX == 1027

AGES_LIMITE_SEDENTAIRE == 67

---------------------------------------------------------------------------
(* js/modules/pension.js                                                   *)

\* amounts in cents
calculerTraitementIndiciaire(indiceBrut, pointsNBIIntegres) ==
  [annuel  |-> MathRoundMulDiv(indiceBrut + pointsNBIIntegres,
                               POINT_INDICE_VALEUR_ANNUELLE, 1000),
   mensuel |-> MathRoundMulDiv(indiceBrut + pointsNBIIntegres,
                               POINT_INDICE_VALEUR_MENSUELLE, 1000),
   nbiIntegre |-> pointsNBIIntegres > 0,
   pointsNBI  |-> pointsNBIIntegres]

\* the rate in percent, as a fraction
calculerTauxLiquidationBrutSansPlafond(trimestresLiquidables, trimestresRequis) ==
  IF trimestresRequis <= 0 THEN Frac(0, 1)
  ELSE Frac(trimestresLiquidables * TAUX_PLEIN, trimestresRequis)

calculerTauxLiquidationBrut(trimestresLiquidables, trimestresRequis) ==
  IF trimestresRequis <= 0 THEN Frac(0, 1)
  ELSE Frac(Min(trimestresLiquidables * TAUX_PLEIN, TAUX_PLEIN * trimestresRequis),
            trimestresRequis)

\* Math.max(1 - trimestresDecote * 0.0125, 0.75)
calculerCoefficientDecote(trimestresDecote) ==
  IF trimestresDecote <= 0 THEN Frac(1, 1)
  ELSE Frac(Max(TRIMESTRES_POUR_CENT_POUR_CENT - trimestresDecote,
                (3 * TRIMESTRES_POUR_CENT_POUR_CENT) \div 4),
            TRIMESTRES_POUR_CENT_POUR_CENT)

calculerTauxLiquidationNet(tauxBrut, coefficientDecote) ==
  Frac(tauxBrut.n * coefficientDecote.n, tauxBrut.d * coefficientDecote.d)

calculerPensionBrute(traitementIndiciaire, tauxLiquidation) ==
  [annuel  |-> MathRoundMulDiv(traitementIndiciaire, tauxLiquidation.n,
                               tauxLiquidation.d * 100),
   mensuel |-> MathRoundMulDiv(traitementIndiciaire, tauxLiquidation.n,
                               tauxLiquidation.d * 1200)]

calculerMajorationPrimeFeu(traitementIndiciaireAnnuel, tauxLiquidation, droitMajoration, trimestresSPP, trimestresBonificationSPP, trimestresTotal, trimestresRequis) ==
  LET bonificationSPP ==
        IF trimestresBonificationSPP = Indefini THEN 0 ELSE trimestresBonificationSPP
      requis == IF trimestresRequis = Indefini THEN 172 ELSE trimestresRequis
      trimestresCarriereSPP == Ou(trimestresSPP, 0) + Ou(bonificationSPP, 0)
      exempteProratisation == trimestresCarriereSPP >= requis
      proratisee ==
        /\ ~exempteProratisation
        /\ Ou(trimestresSPP, 0) # 0
        /\ Ou(trimestresTotal, 0) # 0
        /\ trimestresSPP < trimestresTotal
      \* majorationBase / TIB, before the liquidation rate
      part ==
        IF proratisee
        THEN FracMul(Frac(PFR_TAUX_PRIME_FEU, 100), Frac(trimestresSPP, trimestresTotal))
        ELSE Reduire(Frac(PFR_TAUX_PRIME_FEU, 100))
      Majoration(facteur) ==
        [annuelle  |-> MathRoundMulDiv(traitementIndiciaireAnnuel, facteur.n, facteur.d),
         mensuelle |-> MathRoundMulDiv(traitementIndiciaireAnnuel, facteur.n,
                                       facteur.d * 12),
         proratisee |-> proratisee,
         tauxProratisation |->
           IF proratisee THEN MathRoundMulDiv(trimestresSPP, 10000, trimestresTotal)
           ELSE 10000]
  IN  IF ~droitMajoration
      THEN [annuelle |-> 0, mensuelle |-> 0, proratisee |-> FALSE, tauxProratisation |-> 0]
      ELSE Majoration(FracMul(part, Reduire(Frac(tauxLiquidation.n,
                                                 tauxLiquidation.d * 100))))

\* the whole minimum, whatever the liquidable quarters
calculerMinimumGarantiEntier(trimestresLiquidables, trimestresRequis) ==
  Num(MINIMUM_GARANTI_MONTANT_MENSUEL_2026)

\* Math.round(1367.51 * Math.min(liquidables / requis, 1) * 100) / 100, in cents:
\* 0 / 0 is NaN, x / 0 is Infinity for x > 0
calculerMinimumGaranti(trimestresLiquidables, trimestresRequis) ==
  IF trimestresRequis = 0
  THEN IF trimestresLiquidables = 0 THEN NaN
       ELSE Num(MINIMUM_GARANTI_MONTANT_MENSUEL_2026)
  ELSE Num(MathRoundMulDiv(MINIMUM_GARANTI_MONTANT_MENSUEL_2026,
                           Min(trimestresLiquidables, trimestresRequis),
                           trimestresRequis))

calculerCotisationsPension(pensionBruteMensuelle) ==
  [total |-> MathRoundMulDiv(pensionBruteMensuelle,
                             COTISATIONS_CSG + COTISATIONS_CRDS + COTISATIONS_CASA, 10000),
   csg   |-> MathRoundMulDiv(pensionBruteMensuelle, COTISATIONS_CSG, 10000),
   crds  |-> MathRoundMulDiv(pensionBruteMensuelle, COTISATIONS_CRDS, 10000),
   casa  |-> MathRoundMulDiv(pensionBruteMensuelle, COTISATIONS_CASA, 10000)]

calculerPensionNette(pensionBruteMensuelle) ==
  pensionBruteMensuelle - calculerCotisationsPension(pensionBruteMensuelle).total

calculerPension(donnees) ==
  LET trimestresLiquidables == donnees.trimestresLiquidables
      trimestresRequis == donnees.trimestresRequis
      Resultat(traitement, tauxLiquidationBrut, trimestresDecote, coefficientDecote,
               tauxLiquidationNet, pensionBrute, majorationPrimeFeu, minimumGaranti) ==
        LET pensionBruteTotaleMensuelle ==
              pensionBrute.mensuel + majorationPrimeFeu.mensuelle
            \* a comparison with NaN is false
            minimumGarantiApplique ==
              estFini(minimumGaranti) /\ pensionBruteTotaleMensuelle < minimumGaranti.v
            pensionBruteMensuelleFinale ==
              IF minimumGarantiApplique THEN minimumGaranti.v
              ELSE pensionBruteTotaleMensuelle
        IN  [traitementIndiciaireAnnuel |-> traitement.annuel,
             traitementIndicaireMensuel |-> traitement.mensuel,
             tauxLiquidationBrut |->
               MathRoundMulDiv(tauxLiquidationBrut.n, 100, tauxLiquidationBrut.d),
             coefficientDecote |->
               MathRoundMulDiv(coefficientDecote.n, 10000, coefficientDecote.d),
             trimestresDecote |-> trimestresDecote,
             tauxLiquidationNet |->
               MathRoundMulDiv(tauxLiquidationNet.n, 100, tauxLiquidationNet.d),
             pensionBaseMensuelle |-> pensionBrute.mensuel,
             pensionBaseAnnuelle |-> pensionBrute.annuel,
             majorationPrimeFeu |-> majorationPrimeFeu,
             pensionBruteAnnuelle |-> pensionBruteMensuelleFinale * 12,
             pensionBruteMensuelle |-> pensionBruteMensuelleFinale,
             pensionNetteMensuelle |-> calculerPensionNette(pensionBruteMensuelleFinale),
             minimumGaranti |-> minimumGaranti,
             minimumGarantiApplique |-> minimumGarantiApplique,
             nbiIntegre |-> traitement.nbiIntegre,
             pointsNBIIntegres |-> traitement.pointsNBI]
      \* five arguments only: the fifth lands in trimestresBonificationSPP
      Net(traitement, tauxLiquidationBrut, trimestresDecote, coefficientDecote,
          tauxLiquidationNet) ==
        Resultat(traitement, tauxLiquidationBrut, trimestresDecote, coefficientDecote,
                 tauxLiquidationNet,
                 calculerPensionBrute(traitement.annuel, tauxLiquidationNet),
                 calculerMajorationPrimeFeu(traitement.annuel, tauxLiquidationNet,
                                            donnees.droitMajorationPrimeFeu,
                                            Ou(donnees.trimestresSPP, trimestresLiquidables),
                                            Ou(donnees.trimestresTotal, trimestresLiquidables),
                                            Indefini, Indefini),
                 calculerMinimumGaranti(trimestresLiquidables, trimestresRequis))
      Decote(traitement, tauxLiquidationBrut, trimestresDecote, coefficientDecote) ==
        Net(traitement, tauxLiquidationBrut, trimestresDecote, coefficientDecote,
            calculerTauxLiquidationNet(tauxLiquidationBrut, coefficientDecote))
      Brut(traitement, tauxLiquidationBrut, trimestresDecote) ==
        Decote(traitement, tauxLiquidationBrut, trimestresDecote,
               calculerCoefficientDecote(trimestresDecote))
  IN  Brut(calculerTraitementIndiciaire(donnees.indiceBrut, donnees.pointsNBIIntegres),
           calculerTauxLiquidationBrut(trimestresLiquidables, trimestresRequis),
           calculerTrimestresDecote(donnees.dateNaissance, donnees.dateDepart,
                                    donnees.trimestresAssurance, trimestresRequis))

---------------------------------------------------------------------------
(* js/modules/nbi.js                                                       *)

verifierEligibiliteNBI(dureeMoisNBI) ==
  dureeMoisNBI >= NBI_DUREE_MIN_PERCEPTION * 12

\* in hundredths of a point
calculerMoyennePondereeNBI(pointsNBI, dureeMoisNBI, dureeServicesTotal) ==
  IF pointsNBI = 0 \/ dureeMoisNBI = 0 \/ dureeServicesTotal = 0 THEN 0
  ELSE IF dureeMoisNBI >= NBI_DUREE_INTEGRATION_COMPLETE * 12 THEN pointsNBI * 100
  ELSE MathRoundMulDiv(pointsNBI * 100,
                       Min(dureeMoisNBI, dureeServicesTotal * 3),
                       dureeServicesTotal * 3)

\* moyennePondereeNBI in hundredths of a point, tauxLiquidation in hundredths of
\* a percent, amounts in cents
calculerSupplementNBI(moyennePondereeNBI, tauxLiquidation) ==
  IF moyennePondereeNBI <= 0 \/ tauxLiquidation <= 0
  THEN [mensuel |-> 0, annuel |-> 0]
  ELSE [mensuel |-> MathRoundMulDiv(moyennePondereeNBI * tauxLiquidation,
                                    POINT_INDICE_VALEUR_MENSUELLE, 1000000000),
        annuel  |-> MathRoundMulDiv(moyennePondereeNBI * tauxLiquidation,
                                    POINT_INDICE_VALEUR_ANNUELLE, 1000000000)]

calculerNBI(donnees) ==
  LET eligible == verifierEligibiliteNBI(donnees.dureeMoisNBI)
      Supplement(moyennePonderee, supplement) ==
        [eligible |-> TRUE,
         pointsNBI |-> donnees.pointsNBI,
         dureeMoisNBI |-> donnees.dureeMoisNBI,
         moyennePonderee |-> moyennePonderee,
         supplementMensuel |-> supplement.mensuel,
         supplementAnnuel |-> supplement.annuel]
      Moyenne(moyennePonderee) ==
        Supplement(moyennePonderee,
                   calculerSupplementNBI(moyennePonderee, donnees.tauxLiquidation))
  IN  IF ~eligible
      THEN [eligible |-> FALSE,
            pointsNBI |-> donnees.pointsNBI,
            dureeMoisNBI |-> donnees.dureeMoisNBI,
            moyennePonderee |-> 0,
            supplementMensuel |-> 0,
            supplementAnnuel |-> 0]
      ELSE Moyenne(calculerMoyennePondereeNBI(donnees.pointsNBI, donnees.dureeMoisNBI,
                                              donnees.dureeServicesTotal))

---------------------------------------------------------------------------
(* js/modules/pfr.js                                                       *)

\* amounts in cents
calculerPFRTheorique(indiceBrut) ==
  MathRoundMulDiv(indiceBrut, POINT_INDICE_VALEUR_ANNUELLE,
                  (1000 * 100) \div PFR_TAUX_PRIME_FEU)

\* plafond of the unrounded traitement indiciaire of indiceBrut
calculerPlafondRAFP(indiceBrut) ==
  MathRoundMulDiv(indiceBrut, POINT_INDICE_VALEUR_ANNUELLE,
                  (1000 * 100) \div PFR_PLAFOND_ASSIETTE_RAFP)

calculerAssietteRAFP(montantPFR, plafondRAFP) == Min(montantPFR, plafondRAFP)

calculerCotisationRAFP(assietteRAFP) ==
  MathRoundMulDiv(assietteRAFP, PFR_TAUX_COTISATION_RAFP, 100)

\* Math.ceil((agent + employeur) / 1.4596), contributions in cents
estimerPointsRAFPAnnuels(cotisationAgent, cotisationEmployeur) ==
  MathCeilMulDiv(cotisationAgent + cotisationEmployeur, 100,
                 PFR_VALEUR_ACQUISITION_POINT_RAFP)

\* Math.round(totalPoints * 0.05671 / 12 * 100) / 100, in cents
calculerRenteRAFP(totalPoints) ==
  MathRoundMulDiv(totalPoints, PFR_VALEUR_SERVICE_POINT_RAFP, 12 * 1000)

\* donnees: indiceBrut (0 for null), montantAnnuelPFR (cents, 0 for null),
\* partFixe, partVariable (cents or Indefini), anneesCotisation
calculerPFR(donnees) ==
  LET indiceBrut == donnees.indiceBrut
      \* montant / (indice * 59.07336) * 100, in hundredths of a percent;
      \* 5907336 = 8 * 738417
      Resultat(montantPFRAnnuel, plafondRAFP, assietteRAFP, cotisationAnnuelleRAFP,
               pointsRAFPAnnuels) ==
        LET totalPointsRAFP == pointsRAFPAnnuels * donnees.anneesCotisation
        IN  [traitementIndiciaireAnnuel |->
               MathRoundMulDiv(indiceBrut, POINT_INDICE_VALEUR_ANNUELLE, 1000),
             montantPFRAnnuel |-> montantPFRAnnuel,
             tauxPFR |->
               MathRoundMulDiv(montantPFRAnnuel, 1250000,
                               indiceBrut * (POINT_INDICE_VALEUR_ANNUELLE \div 8)),
             plafondRAFP |-> plafondRAFP,
             assietteRAFP |-> assietteRAFP,
             cotisationAnnuelleRAFP |-> cotisationAnnuelleRAFP,
             pointsRAFPAnnuels |-> pointsRAFPAnnuels,
             totalPointsRAFP |-> totalPointsRAFP,
             renteRAFPMensuelle |-> calculerRenteRAFP(totalPointsRAFP)]
      Cotisation(montantPFRAnnuel, plafondRAFP, assietteRAFP, cotisationAnnuelleRAFP) ==
        Resultat(montantPFRAnnuel, plafondRAFP, assietteRAFP, cotisationAnnuelleRAFP,
                 estimerPointsRAFPAnnuels(cotisationAnnuelleRAFP, cotisationAnnuelleRAFP))
      Assiette(montantPFRAnnuel, plafondRAFP, assietteRAFP) ==
        Cotisation(montantPFRAnnuel, plafondRAFP, assietteRAFP,
                   calculerCotisationRAFP(assietteRAFP))
      Montant(montantPFRAnnuel, plafondRAFP) ==
        Assiette(montantPFRAnnuel, plafondRAFP,
                 calculerAssietteRAFP(montantPFRAnnuel, plafondRAFP))
  IN  IF indiceBrut <= 0
      THEN [traitementIndiciaireAnnuel |-> 0, montantPFRAnnuel |-> 0, tauxPFR |-> 0,
            plafondRAFP |-> 0, assietteRAFP |-> 0, cotisationAnnuelleRAFP |-> 0,
            pointsRAFPAnnuels |-> 0, totalPointsRAFP |-> 0, renteRAFPMensuelle |-> 0]
      ELSE Montant(IF donnees.montantAnnuelPFR > 0 THEN donnees.montantAnnuelPFR
                   ELSE IF donnees.partFixe # Indefini \/ donnees.partVariable # Indefini
                   THEN (Ou(donnees.partFixe, 0) + Ou(donnees.partVariable, 0)) * 12
                   ELSE calculerPFRTheorique(indiceBrut),
                   calculerPlafondRAFP(indiceBrut))

---------------------------------------------------------------------------
(* js/modules/surcote.js                                                   *)

verifierEligibiliteSurcote(dateNaissance, dateDepart, trimestresAssurance, trimestresRequis) ==
  LET ageDepart == calculerAge(dateNaissance, dateDepart)
      ageSedentaire == getAgeLegalSedentaire(dateNaissance)
  IN  IF ageDepart < ageSedentaire.ans THEN FALSE
      ELSE IF trimestresAssurance < trimestresRequis THEN FALSE
      ELSE TRUE

calculerDateDebutSurcote(dateNaissance, dateTauxPlein) ==
  LET ageSedentaire == getAgeLegalSedentaire(dateNaissance)
      dateAnnees == setFullYearPlus(dateNaissance, ageSedentaire.ans)
      dateAgeSedentaire ==
        IF ageSedentaire.mois # 0 THEN setMonthPlus(dateAnnees, ageSedentaire.mois)
        ELSE dateAnnees
  IN  IF Ord(dateTauxPlein) > Ord(dateAgeSedentaire) THEN dateTauxPlein
      ELSE dateAgeSedentaire

calculerTrimestresSurcote(dateDebutSurcote, dateDepart) ==
  IF Ord(dateDepart) <= Ord(dateDebutSurcote) THEN 0
  ELSE calculerTrimestresEntreDates(dateDebutSurcote, dateDepart)

\* the rate capped at 20 quarters, as the reduction is
calculerTauxSurcotePlafonne(trimestresSurcote) ==
  IF trimestresSurcote <= 0 THEN 0
  ELSE (Min(trimestresSurcote, 20) * 10000) \div TRIMESTRES_POUR_CENT_POUR_CENT

\* in hundredths of a percent (1.25 % per quarter)
calculerTauxSurcote(trimestresSurcote) ==
  IF trimestresSurcote <= 0 THEN 0
  ELSE (trimestresSurcote * 10000) \div TRIMESTRES_POUR_CENT_POUR_CENT

\* in ten-thousandths
calculerCoefficientSurcote(tauxSurcote) == 10000 + tauxSurcote

calculerSurcote(donnees) ==
  LET eligible ==
        verifierEligibiliteSurcote(donnees.dateNaissance, donnees.dateDepart,
                                   donnees.trimestresAssurance, donnees.trimestresRequis)
      Taux(trimestresSurcote, tauxSurcote) ==
        [eligible |-> TRUE, trimestresSurcote |-> trimestresSurcote,
         tauxSurcote |-> tauxSurcote,
         coefficientMajoration |-> calculerCoefficientSurcote(tauxSurcote)]
      Trimestres(trimestresSurcote) ==
        Taux(trimestresSurcote, calculerTauxSurcote(trimestresSurcote))
      Debut(dateDebutSurcote) ==
        Trimestres(calculerTrimestresSurcote(dateDebutSurcote, donnees.dateDepart))
  IN  IF ~eligible
      THEN [eligible |-> FALSE, trimestresSurcote |-> 0, tauxSurcote |-> 0,
            coefficientMajoration |-> 10000]
      ELSE Debut(calculerDateDebutSurcote(donnees.dateNaissance, donnees.dateTauxPlein))

\* pension in cents, coefficient in ten-thousandths
appliquerSurcote(pensionBrute, coefficientSurcote) ==
  MathRoundMulDiv(pensionBrute, coefficientSurcote, 10000)

calculerGainSurcote(pensionSansSurcote, pensionAvecSurcote) ==
  pensionAvecSurcote - pensionSansSurcote

\* amounts in cents; pointMortAnnees is a JavaScript number
calculerPointMortSurcote(salaireMensuelNet, pensionSansSurcote, pensionAvecSurcote, anneesTravailSupp) ==
  LET coutPensionsNonPercues == pensionSansSurcote * 12 * anneesTravailSupp
      gainAnnuelSurcote == (pensionAvecSurcote - pensionSansSurcote) * 12
      pointMortAnnees ==
        IF gainAnnuelSurcote > 0
        THEN Num(CeilDiv(coutPensionsNonPercues, gainAnnuelSurcote))
        ELSE Infini
  IN  [anneesTravailSupp |-> anneesTravailSupp,
       coutPensionsNonPercues |-> coutPensionsNonPercues,
       gainAnnuelSurcote |-> gainAnnuelSurcote,
       pointMortAnnees |-> pointMortAnnees,
       rentable |-> estFini(pointMortAnnees) /\ pointMortAnnees.v < 20]

simulerScenariosSurcote(donneesBase, dateTauxPlein, pensionTauxPlein) ==
  LET dateScenario(annees) == setFullYearPlus(dateTauxPlein, annees)
      ageScenario(annees) == calculerAge(donneesBase.dateNaissance, dateScenario(annees))
      \* the loop breaks at the first year past the age limit
      retenues == {k \in 1..5 : \A j \in 1..k : ageScenario(j) <= AGES_LIMITE_ACTIVITE}
      Scenario(annees, resultatSurcote, pensionAvecSurcote, gainMensuel) ==
        [anneesSupplementaires |-> annees,
         dateDepart |-> dateScenario(annees),
         ageDepart |-> ageScenario(annees),
         trimestresSurcote |-> resultatSurcote.trimestresSurcote,
         tauxSurcote |-> resultatSurcote.tauxSurcote,
         pensionMensuelle |-> pensionAvecSurcote,
         gainMensuel |-> gainMensuel,
         gainAnnuel |-> gainMensuel * 12]
      Pension(annees, resultatSurcote, pensionAvecSurcote) ==
        Scenario(annees, resultatSurcote, pensionAvecSurcote,
                 calculerGainSurcote(pensionTauxPlein, pensionAvecSurcote))
      Surcote(annees, resultatSurcote) ==
        Pension(annees, resultatSurcote,
                appliquerSurcote(pensionTauxPlein, resultatSurcote.coefficientMajoration))
      scenario(annees) ==
        Surcote(annees,
                calculerSurcote([dateNaissance |-> donneesBase.dateNaissance,
                                 dateDepart |-> dateScenario(annees),
                                 trimestresAssurance |->
                                   donneesBase.trimestresRequis + annees * 4,
                                 trimestresRequis |-> donneesBase.trimestresRequis,
                                 dateTauxPlein |-> dateTauxPlein]))
  IN  [annees \in 1..Cardinality(retenues) |-> scenario(annees)]

---------------------------------------------------------------------------
(* js/modules/duree.js: calculerDateTauxPlein (today passed explicitly)    *)

DateInvalide == [a |-> 0 - 1, m |-> 0, j |-> 0]

\* Math.ceil(trimestresManquants / quotite) * 3: Infinity when quotite is 0
moisNecessairesDuree(trimestresManquants, quotite) ==
  IF quotite = 0 THEN Infini
  ELSE Num(3 * (CeilDiv(trimestresManquants * 100, quotite)
                + (IF <<trimestresManquants, quotite>> \in QuotientDoubleSurEntier
                   THEN 1 ELSE 0)))

\* donnees is a DonneesServices; setMonth(Infinity) leaves an Invalid Date
dureeCalculerDateTauxPlein(donnees, anneeNaissance, maintenant) ==
  LET resultatActuel ==
        calculerDurees([donnees EXCEPT !.dateDepart = maintenant], anneeNaissance)
      trimestresManquants == 0 - resultatActuel.ecartTauxPlein
      moisNecessaires == moisNecessairesDuree(trimestresManquants, donnees.quotite)
  IN  IF resultatActuel.ecartTauxPlein >= 0 THEN maintenant
      ELSE IF estFini(moisNecessaires) THEN setMonthPlus(maintenant, moisNecessaires.v)
      ELSE DateInvalide

---------------------------------------------------------------------------
(* js/utils/validators.js, js/modules/profil.js                            *)

\* new Date(): the day the system clock shows
aujourdhui == horloge

\* the day the page is opened
HorlogeInitiale == Date(2026, 1, 15)

\* the days on which the clock is read
Horloges == {HorlogeInitiale, Date(2026, 9, 15), Date(2027, 3, 15)}

validerAnneeNaissance(annee) ==
  LET anneeActuelle == aujourdhui.a
      ageMin == 18
      ageMax == AGES_LIMITE_SEDENTAIRE + 5
  IN  annee >= anneeActuelle - ageMax /\ annee <= anneeActuelle - ageMin

validerDateNaissance(date) ==
  validerAnneeNaissance(date.a) /\ Ord(date) <= Ord(aujourdhui)

validerIndiceBrut(indice) ==
  indice >= ECHELLE_INDICIAIRE_MIN /\ indice <= ECHELLE_INDICIAIRE_MAX

validerQuotite(quotite) == quotite >= 50 /\ quotite <= 100

validerAnneesSPV(annees) == annees >= 0 /\ annees <= 50

\* the hire date is looked up as profil.dateEntree, a field the profile never
\* has: validerDateEntree does not run
validerProfil(profil) ==
  /\ (~estNulle(profil.dateNaissance) => validerDateNaissance(profil.dateNaissance))
  /\ validerIndiceBrut(profil.indiceBrut)
  /\ validerQuotite(profil.quotite)
  /\ validerAnneesSPV(profil.anneesSPV)

creerProfil(donnees) ==
  [dateNaissance    |-> donnees.dateNaissance,
   anneeNaissance   |-> donnees.dateNaissance.a,
   dateEntreeSPP    |-> donnees.dateEntreeSPP,
   quotite          |-> donnees.quotite,
   anneesSPV        |-> donnees.anneesSPV,
   indiceBrut       |-> donnees.indiceBrut,
   pointsNBI        |-> donnees.pointsNBI,
   enfantsAvant2004 |-> donnees.enfantsAvant2004]

enrichirProfil(profil) ==
  [donnees |-> profil,
   generation |-> profil.anneeNaissance,
   dureeAssuranceRequise |-> getDureeAssuranceRequise(profil.anneeNaissance),
   majorationSPV |-> getMajorationSPV(profil.anneesSPV),
   ageActuel |-> calculerAge(profil.dateNaissance, aujourdhui),
   valide |-> validerProfil(profil)]

---------------------------------------------------------------------------
(* js/app.js                                                               *)

\* BAREME_PFR_SPV, euros per year
getMontantPFRSPV(anneesSPV) ==
  IF anneesSPV >= 35 THEN 3075
  ELSE IF anneesSPV >= 30 THEN 2690
  ELSE IF anneesSPV >= 25 THEN 2050
  ELSE IF anneesSPV >= 20 THEN 1025
  ELSE IF anneesSPV >= 15 THEN 512
  ELSE 0

\* montantManuel in cents, amounts in cents
calculerPFRSPV(doubleStatut, anneesSPV, montantManuel) ==
  LET montantAnnuel ==
        IF montantManuel > 0 THEN montantManuel ELSE getMontantPFRSPV(anneesSPV) * 100
  IN  IF ~doubleStatut \/ anneesSPV < 15
      THEN [eligible |-> FALSE, anneesSPV |-> anneesSPV,
            montantAnnuel |-> 0, montantMensuel |-> 0]
      ELSE [eligible |-> anneesSPV >= 20,
            eligibleIncapacite |-> anneesSPV >= 15 /\ anneesSPV < 20,
            anneesSPV |-> anneesSPV,
            montantAnnuel |-> montantAnnuel,
            montantMensuel |-> MathRoundMulDiv(montantAnnuel, 1, 12)]

\* the form fields as the inputs hold them (an empty field is DateNulle or 0)
\* to the record handleSubmit works on
collectFormData(form) ==
  [dateNaissance |-> form.dateNaissance,
   dateEntreeSPP |-> form.dateEntreeSPP,
   quotite |-> IF form.quotite = 0 THEN 100 ELSE form.quotite,
   anneesSPV |-> form.anneesSPV,
   trimestresAutresRegimes |-> form.trimestresAutresRegimes,
   enfantsAvant2004 |-> form.enfantsAvant2004,
   indiceBrut |-> form.indiceBrut,
   pointsNBI |-> form.pointsNBI,
   dureeNBI |-> form.dureeNBI,
   montantPFR |-> form.montantPFR,
   anneesCotisationRAFP |-> form.anneesCotisationRAFP,
   doubleStatut |-> form.doubleStatut,
   montantPFRSPV |-> form.montantPFRSPV,
   servicesMilitaires |-> form.servicesMilitaires,
   dureeServicesMilitairesAnnees |-> form.dureeServicesMilitairesAnnees,
   dureeServicesMilitairesMois |-> form.dureeServicesMilitairesMois,
   trimestresServicesMilitaires |->
     IF form.servicesMilitaires # "aucun"
     THEN (form.dureeServicesMilitairesAnnees * 12 + form.dureeServicesMilitairesMois)
          \div 3
     ELSE 0]

donneesDepartDe(data) ==
  [dateNaissance |-> data.dateNaissance,
   dateEntreeSPP |-> data.dateEntreeSPP,
   quotite |-> data.quotite,
   trimestresAutresRegimes |-> data.trimestresAutresRegimes,
   anneesSPV |-> data.anneesSPV,
   enfantsAvant2004 |-> data.enfantsAvant2004,
   servicesMilitaires |-> data.servicesMilitaires,
   trimestresServicesMilitaires |-> data.trimestresServicesMilitaires]

\* the argument effectuerCalculs gives calculerPension: droitMajorationPrimeFeu
\* takes its default, trimestresSPP and trimestresTotal are left out
donneesPensionDe(data, duree, trimestresRequis, dateDepart, pointsNBIIntegres) ==
  [indiceBrut |-> data.indiceBrut,
   trimestresLiquidables |-> duree.trimestresLiquidables,
   trimestresAssurance |-> duree.trimestresAssuranceTotale,
   trimestresRequis |-> trimestresRequis,
   dateNaissance |-> data.dateNaissance,
   dateDepart |-> dateDepart,
   pointsNBIIntegres |-> pointsNBIIntegres,
   droitMajorationPrimeFeu |-> TRUE,
   trimestresSPP |-> Indefini,
   trimestresTotal |-> Indefini]

\* every point enters the indexed salary, whatever the duration
pointsNBIToujoursIntegres(data) == data.pointsNBI

\* nbiIntegrable ? pointsNBI : 0
pointsNBIIntegresDe(data) ==
  IF data.dureeNBI >= 15 THEN data.pointsNBI ELSE 0

effectuerCalculs(data, profilEnrichi) ==
  LET anneeNaissance == data.dateNaissance.a
      trimestresRequis == getDureeAssuranceRequise(anneeNaissance)
      donneesDepart == donneesDepartDe(data)
      nbiIntegrable == data.dureeNBI >= 15
      dureesA(dateDepart) ==
        calculerDurees(donneesServices(donneesDepart, dateDepart), anneeNaissance)
      pensionA(duree, dateDepart) ==
        calculerPension(donneesPensionDe(data, duree, trimestresRequis, dateDepart,
                                         pointsNBIIntegresDe(data)))
      \* one scenario of genererScenariosDepart, with its pension
      ScenarioComplet(scenario, duree, pension, surcote) ==
        LET pensionAvecSurcote ==
              appliquerSurcote(pension.pensionBruteMensuelle, surcote.coefficientMajoration)
            pensionFinale ==
              IF scenario.surcote /\ surcote.eligible
              THEN [f \in DOMAIN pension \cup {"surcote"} |->
                      CASE f = "pensionBruteMensuelle" -> pensionAvecSurcote
                        [] f = "pensionBruteAnnuelle" -> pensionAvecSurcote * 12
                        [] f = "surcote" -> surcote
                        [] OTHER -> pension[f]]
              ELSE pension
        IN  [f \in DOMAIN scenario \cup {"pension"} |->
               CASE f = "trimestresLiquidables" -> duree.trimestresLiquidables
                 [] f = "trimestresAssurance" -> duree.trimestresAssuranceTotale
                 [] f = "pension" -> pensionFinale
                 [] OTHER -> scenario[f]]
      ScenarioDuree(scenario, duree, dateTauxPlein) ==
        ScenarioComplet(scenario, duree, pensionA(duree, scenario.date),
                        calculerSurcote([dateNaissance |-> data.dateNaissance,
                                         dateDepart |-> scenario.date,
                                         trimestresAssurance |->
                                           duree.trimestresAssuranceTotale,
                                         trimestresRequis |-> trimestresRequis,
                                         dateTauxPlein |-> dateTauxPlein]))
      scenarioAvecPension(scenario, dateTauxPlein) ==
        ScenarioDuree(scenario, dureesA(scenario.date), dateTauxPlein)
      dateCreationRAFP == Date(PFR_ANNEE_CREATION_RAFP, 1, 1)
      dateDebutRAFP ==
        IF Ord(data.dateEntreeSPP) >= Ord(dateCreationRAFP) THEN data.dateEntreeSPP
        ELSE dateCreationRAFP
      \* the age at the full-rate date is handed to calculerPFR as a second
      \* argument, which calculerPFR does not take
      pfrA(dateTauxPlein) ==
        calculerPFR([indiceBrut |-> data.indiceBrut,
                     montantAnnuelPFR |-> data.montantPFR,
                     partFixe |-> Indefini,
                     partVariable |-> Indefini,
                     anneesCotisation |->
                       IF data.anneesCotisationRAFP = 0
                       THEN Max(0, AnneesJulienne(dateDebutRAFP, dateTauxPlein))
                       ELSE data.anneesCotisationRAFP])
      NBIDe(nbiSepare) ==
        IF nbiIntegrable
        THEN [eligible |-> TRUE,
              integreTIB |-> TRUE,
              pointsNBI |-> data.pointsNBI,
              dureeMoisNBI |-> data.dureeNBI * 12,
              moyennePonderee |-> data.pointsNBI * 100,
              supplementMensuel |-> 0,
              supplementAnnuel |-> 0]
        ELSE IF nbiSepare.eligible
        THEN [f \in DOMAIN nbiSepare \cup {"integreTIB"} |->
                IF f = "integreTIB" THEN FALSE ELSE nbiSepare[f]]
        ELSE nbiSepare
      Resultats(scenarios, resultatDateTauxPlein, dureeTauxPlein, pensionTauxPlein,
                pfr, nbi, pfrSPV) ==
        [profil |-> profilEnrichi,
         duree |-> dureeTauxPlein,
         dateTauxPlein |-> resultatDateTauxPlein.date,
         ageTauxPlein |-> AnneesJulienne(data.dateNaissance, resultatDateTauxPlein.date),
         tauxPleinParDuree |-> resultatDateTauxPlein.atteintParDuree,
         tauxPleinParAge |-> resultatDateTauxPlein.atteintParAge,
         trimestresManquantsTauxPlein |-> resultatDateTauxPlein.trimestresManquants,
         pensionTauxPlein |-> pensionTauxPlein,
         scenarios |->
           [i \in DOMAIN scenarios |->
              scenarioAvecPension(scenarios[i], resultatDateTauxPlein.date)],
         scenariosSurcote |->
           IF resultatDateTauxPlein.atteintParDuree
           THEN simulerScenariosSurcote([dateNaissance |-> data.dateNaissance,
                                         trimestresRequis |-> trimestresRequis],
                                        resultatDateTauxPlein.date,
                                        pensionTauxPlein.pensionBruteMensuelle)
           ELSE << >>,
         pfr |-> pfr,
         pfrSPV |-> pfrSPV,
         nbi |-> nbi,
         totalRetraite |->
           pensionTauxPlein.pensionBruteMensuelle
           + (IF nbi.eligible THEN nbi.supplementMensuel ELSE 0)
           + pfr.renteRAFPMensuelle
           + (IF pfrSPV.eligible THEN pfrSPV.montantMensuel ELSE 0),
         trimestresRequis |-> trimestresRequis]
      PensionTauxPlein(scenarios, resultatDateTauxPlein, dureeTauxPlein,
                       pensionTauxPlein) ==
        Resultats(scenarios, resultatDateTauxPlein, dureeTauxPlein, pensionTauxPlein,
                  pfrA(resultatDateTauxPlein.date),
                  NBIDe(calculerNBI([pointsNBI |-> data.pointsNBI,
                                     dureeMoisNBI |-> data.dureeNBI * 12,
                                     dureeServicesTotal |->
                                       dureeTauxPlein.trimestresLiquidables,
                                     tauxLiquidation |->
                                       pensionTauxPlein.tauxLiquidationNet])),
                  calculerPFRSPV(data.doubleStatut, data.anneesSPV, data.montantPFRSPV))
      DureeTauxPlein(scenarios, resultatDateTauxPlein, dureeTauxPlein) ==
        PensionTauxPlein(scenarios, resultatDateTauxPlein, dureeTauxPlein,
                         pensionA(dureeTauxPlein, resultatDateTauxPlein.date))
      DateTauxPlein(scenarios, resultatDateTauxPlein) ==
        DureeTauxPlein(scenarios, resultatDateTauxPlein,
                       dureesA(resultatDateTauxPlein.date))
  IN  DateTauxPlein(genererScenariosDepart(donneesDepart),
                    calculerDateTauxPlein(donneesDepart))

---------------------------------------------------------------------------
(* The application: form, submission, new simulation                       *)

Nul == [nul |-> TRUE]

\* the form after form.reset()
FormulaireVide ==
  [dateNaissance |-> DateNulle, dateEntreeSPP |-> DateNulle, quotite |-> 100,
   anneesSPV |-> 0, trimestresAutresRegimes |-> 0, enfantsAvant2004 |-> 0,
   indiceBrut |-> 0, pointsNBI |-> 0, dureeNBI |-> 0, montantPFR |-> 0,
   anneesCotisationRAFP |-> 0, doubleStatut |-> FALSE, montantPFRSPV |-> 0,
   servicesMilitaires |-> "aucun", dureeServicesMilitairesAnnees |-> 0,
   dureeServicesMilitairesMois |-> 0]

AucunAppel == [op |-> "aucun"]

AucunRetour == [fait |-> FALSE]

\* bounds of the entered values
MaxEnfants == 1

MaxAnneesMilitaires == 5

NaissancesSaisies == {DateNulle, Date(1962, 3, 31), Date(1965, 6, 15), Date(1970, 6, 15)}

EntreesSaisies == {Date(1990, 9, 1), Date(2000, 1, 1), Date(2012, 3, 15)}

QuotitesSaisies == {50, 70, 100}

IndicesSaisis == {300, 500}

\* NBI, RAFP and double-status fields, entered together
ComplementsSaisis ==
  { [pointsNBI |-> 0,  dureeNBI |-> 0,  anneesCotisationRAFP |-> 0,  doubleStatut |-> FALSE],
    [pointsNBI |-> 30, dureeNBI |-> 0,  anneesCotisationRAFP |-> 20, doubleStatut |-> FALSE],
    [pointsNBI |-> 30, dureeNBI |-> 10, anneesCotisationRAFP |-> 0,  doubleStatut |-> TRUE],
    [pointsNBI |-> 30, dureeNBI |-> 14, anneesCotisationRAFP |-> 20, doubleStatut |-> TRUE],
    [pointsNBI |-> 30, dureeNBI |-> 15, anneesCotisationRAFP |-> 20, doubleStatut |-> FALSE],
    [pointsNBI |-> 0,  dureeNBI |-> 15, anneesCotisationRAFP |-> 0,  doubleStatut |-> FALSE] }

\* js/ui/form.js: formState after initForm; errors tells whether the step
\* validated last holds a field in error
EtatFormulaireInitial == [currentStep |-> 1, totalSteps |-> 4, errors |-> FALSE]

\* bound on the submit timers pending at the same time
MaxMinuteries == 2

\* the timers pending once the step is shown: one more, 100 ms long, when
\* the step is the last one; nothing ever cancels a timer
triggerCalculationIfNeeded(step) ==
  IF step = formState.totalSteps THEN minuteries + 1 ELSE minuteries

\* both paths of showStep end with triggerCalculationIfNeeded(step)
showStep(step) ==
  /\ triggerCalculationIfNeeded(step) <= MaxMinuteries
  /\ minuteries' = triggerCalculationIfNeeded(step)

goToStep(step) ==
  IF step >= 1 /\ step <= formState.totalSteps
  THEN /\ formState' = [formState EXCEPT !.currentStep = step]
       /\ showStep(step)
  ELSE UNCHANGED <<formState, minuteries>>

Init ==
  /\ formulaire = FormulaireVide
  /\ appState = [profil |-> Nul, resultats |-> Nul, isCalculated |-> FALSE]
  /\ conteneur = "placeholder"
  /\ notification = "aucune"
  /\ appel = AucunAppel
  /\ retour = AucunRetour
  /\ horloge = HorlogeInitiale
  /\ formState = EtatFormulaireInitial
  /\ minuteries = 0
  /\ exportation = [fonction |-> "aucune"]

\* the user fills in the blank form (a new simulation starts from the reset
\* form)
SaisirFormulaire ==
  /\ formulaire = FormulaireVide
  /\ ~appState.isCalculated
  /\ \E naissance \in NaissancesSaisies, entree \in EntreesSaisies,
        quotite \in QuotitesSaisies, enfants \in 0..MaxEnfants,
        autres \in {0, 40}, spv \in {0, 20}, indice \in IndicesSaisis,
        militaires \in {0, MaxAnneesMilitaires}, complement \in ComplementsSaisis :
       /\ (estNulle(naissance) \/ indice = 300)
            => (quotite = 100 /\ enfants = 0 /\ autres = 0 /\ spv = 0
                /\ militaires = 0 /\ complement.pointsNBI = 0 /\ complement.dureeNBI = 0)
       /\ formulaire' =
            [dateNaissance |-> naissance, dateEntreeSPP |-> entree, quotite |-> quotite,
             anneesSPV |-> spv, trimestresAutresRegimes |-> autres,
             enfantsAvant2004 |-> enfants, indiceBrut |-> indice,
             pointsNBI |-> complement.pointsNBI, dureeNBI |-> complement.dureeNBI,
             montantPFR |-> 0,
             anneesCotisationRAFP |-> complement.anneesCotisationRAFP,
             doubleStatut |-> complement.doubleStatut, montantPFRSPV |-> 0,
             servicesMilitaires |-> IF militaires = 0 THEN "aucun" ELSE "BSPP",
             dureeServicesMilitairesAnnees |-> militaires,
             dureeServicesMilitairesMois |-> 0]
  /\ UNCHANGED <<appState, conteneur, notification, appel, retour, horloge,
                 formState, minuteries, exportation>>

\* the listener of the form's submit event; the event comes from the user
\* (SoumettreFormulaire) or from the timer of the last step (MinuterieEchue)
handleSubmit ==
  LET formData == collectFormData(formulaire)
      profilEnrichi == enrichirProfil(creerProfil(formData))
  IN  /\ IF estNulle(formData.dateNaissance) \/ estNulle(formData.dateEntreeSPP)
            \/ formData.indiceBrut = 0
         THEN /\ notification' = "error"
              /\ conteneur' = "incomplet"
              /\ UNCHANGED appState
         ELSE IF ~profilEnrichi.valide
         THEN /\ notification' = "error"
              /\ UNCHANGED <<appState, conteneur>>
         ELSE /\ appState' = [profil |-> profilEnrichi,
                              resultats |-> effectuerCalculs(formData, profilEnrichi),
                              isCalculated |-> TRUE]
              /\ conteneur' = "resultats"
              /\ notification' = "success"
      /\ UNCHANGED <<formulaire, appel, retour, horloge, formState, exportation>>

\* setupFormListeners: the user submits the form
SoumettreFormulaire == handleSubmit /\ UNCHANGED minuteries

\* a new simulation that forgets the profile and keeps the results
nouvelleSimulationSansProfil ==
  /\ formulaire' = FormulaireVide
  /\ goToStep(1)
  /\ appState' = [appState EXCEPT !.profil = Nul]
  /\ conteneur' = "placeholder"
  /\ notification' = "info"
  /\ UNCHANGED <<appel, retour, horloge, exportation>>

handleNewSimulation ==
  /\ formulaire' = FormulaireVide
  /\ goToStep(1)
  /\ appState' = [profil |-> Nul, resultats |-> Nul, isCalculated |-> FALSE]
  /\ conteneur' = "placeholder"
  /\ notification' = "info"
  /\ UNCHANGED <<appel, retour, horloge, exportation>>

Next == SaisirFormulaire \/ SoumettreFormulaire \/ handleNewSimulation

Spec == Init /\ [][Next]_vars

---------------------------------------------------------------------------
(* The same form submitted again while the clock advances                  *)

\* the forms left filled in on the page
FormulairesRemplis ==
  { [FormulaireVide EXCEPT !.dateNaissance = naissance, !.dateEntreeSPP = entree,
                           !.quotite = quotite, !.indiceBrut = 500,
                           !.trimestresAutresRegimes = autres]
      : naissance \in NaissancesSaisies, entree \in EntreesSaisies,
        quotite \in QuotitesSaisies, autres \in {0, 40} }

InitRejeu ==
  /\ formulaire \in FormulairesRemplis
  /\ appState = [profil |-> Nul, resultats |-> Nul, isCalculated |-> FALSE]
  /\ conteneur = "placeholder"
  /\ notification = "aucune"
  /\ appel = AucunAppel
  /\ retour = AucunRetour
  /\ horloge = HorlogeInitiale
  /\ formState = EtatFormulaireInitial
  /\ minuteries = 0
  /\ exportation = [fonction |-> "aucune"]

\* time passes between two submissions
PasserLeTemps ==
  /\ \E jour \in Horloges : Ord(jour) > Ord(horloge) /\ horloge' = jour
  /\ UNCHANGED <<formulaire, appState, conteneur, notification, appel, retour,
                 formState, minuteries, exportation>>

NextRejeu == SoumettreFormulaire \/ PasserLeTemps

SpecRejeu == InitRejeu /\ [][NextRejeu]_vars

---------------------------------------------------------------------------
(* Direct calls of the calculation functions: appel holds the function and *)
(* its arguments, retour what it returned                                  *)

MaxTrimestres == 180

MaxAgeDepart == 65

MaxAgeSurcote == 68

MaxAnneesServices == 25

MinAnneeNaissance == 1950

MaxAnneeNaissance == 1980

NaissancesCohortes ==
  {Date(1961, 6, 15), Date(1962, 3, 31), Date(1965, 6, 15), Date(1970, 6, 15)}

MoisDepart == {0, 1, 6}

AssurancesAuDepart == {140, 160, 172, 180}

ProfilsDepart ==
  { [dateNaissance |-> naissance, dateEntreeSPP |-> entree, quotite |-> quotite,
     trimestresAutresRegimes |-> autres, anneesSPV |-> spv,
     enfantsAvant2004 |-> enfants,
     servicesMilitaires |-> IF militaires = 0 THEN "aucun" ELSE "BSPP",
     trimestresServicesMilitaires |-> militaires * 4] :
      naissance \in NaissancesCohortes,
      entree \in {Date(1985, 9, 1), Date(1990, 9, 1), Date(2000, 1, 1), Date(2012, 3, 15)},
      quotite \in {50, 70, 80, 100}, autres \in {0, 20, 40}, spv \in {0, 20},
      enfants \in 0..MaxEnfants, militaires \in {0, MaxAnneesMilitaires} }

AppelsTrimestresDecote ==
  { [op |-> "calculerTrimestresDecote", dateNaissance |-> naissance,
     dateDepart |-> dateAtteindreAgeAvecMois(naissance, age, mois),
     trimestresAssurance |-> assurance,
     trimestresRequis |-> getDureeAssuranceRequise(naissance.a)] :
      naissance \in NaissancesCohortes, age \in 57..MaxAgeDepart, mois \in MoisDepart,
      assurance \in AssurancesAuDepart }

AppelsDateTauxPlein ==
  { [op |-> "calculerDateTauxPlein", donnees |-> donnees] : donnees \in ProfilsDepart }

AppelsScenariosDepart ==
  { [op |-> "genererScenariosDepart", donnees |-> donnees] : donnees \in ProfilsDepart }

AppelsDurees ==
  { [op |-> "calculerDurees", anneeNaissance |-> 1970,
     donnees |-> [dateEntreeSPP |-> entree, dateDepart |-> depart, quotite |-> 100,
                  trimestresAutresRegimes |-> autres, anneesSPV |-> spv,
                  enfantsAvant2004 |-> enfants,
                  servicesMilitaires |-> IF militaires = 0 THEN "aucun" ELSE "BSPP",
                  trimestresServicesMilitaires |-> militaires * 4]] :
      entree \in {DateNulle, Date(2000, 1, 1)}, depart \in {DateNulle, Date(2030, 1, 1)},
      autres \in {0, 40}, spv \in {0, 20}, enfants \in 0..MaxEnfants,
      militaires \in {0, MaxAnneesMilitaires} }

AppelsSurcote ==
  { [op |-> "calculerSurcote",
     donnees |-> [dateNaissance |-> naissance,
                  dateDepart |-> dateAtteindreAgeAvecMois(naissance, age, mois),
                  trimestresAssurance |-> assurance,
                  trimestresRequis |-> getDureeAssuranceRequise(naissance.a),
                  dateTauxPlein |-> dateAtteindreAge(naissance, ageTauxPlein)]] :
      naissance \in NaissancesCohortes, age \in 61..MaxAgeSurcote, mois \in MoisDepart,
      assurance \in AssurancesAuDepart, ageTauxPlein \in {60, 63} }

AppelsTauxLiquidationBrut ==
  { [op |-> "calculerTauxLiquidationBrut", trimestresLiquidables |-> liquidables,
     trimestresRequis |-> requis] :
      liquidables \in 0..MaxTrimestres, requis \in {0 - 1, 0, 1, 100, 167, 172} }

AppelsMinimumGaranti ==
  { [op |-> "calculerMinimumGaranti", trimestresLiquidables |-> liquidables,
     trimestresRequis |-> requis] :
      liquidables \in {0, 100, 172}, requis \in {0, 167, 172} }

AppelsPension ==
  { [op |-> "calculerPension",
     donnees |-> [indiceBrut |-> indice, trimestresLiquidables |-> liquidables,
                  trimestresAssurance |-> liquidables, trimestresRequis |-> requis,
                  dateNaissance |-> Date(1970, 6, 15), dateDepart |-> depart,
                  pointsNBIIntegres |-> points, droitMajorationPrimeFeu |-> droit,
                  trimestresSPP |-> carriere[1], trimestresTotal |-> carriere[2]]] :
      indice \in {367, 500}, liquidables \in {0, 100, 172}, requis \in {0, 172},
      depart \in {Date(2027, 6, 15), Date(2030, 6, 15), Date(2034, 6, 15)},
      points \in {0, 30},
      droit \in BOOLEAN, carriere \in {<<Indefini, Indefini>>, <<80, 100>>} }

AppelsPointMortSurcote ==
  { [op |-> "calculerPointMortSurcote", salaireMensuelNet |-> 250000,
     pensionSansSurcote |-> 150000, pensionAvecSurcote |-> avec,
     anneesTravailSupp |-> annees] :
      avec \in {140000, 150000, 160000}, annees \in 1..3 }

AppelsDureeDateTauxPlein ==
  { [op |-> "duree.calculerDateTauxPlein", anneeNaissance |-> 1970,
     donnees |-> [dateEntreeSPP |-> Date(2000, 1, 1), dateDepart |-> DateNulle,
                  quotite |-> quotite, trimestresAutresRegimes |-> autres,
                  anneesSPV |-> 0, enfantsAvant2004 |-> 0,
                  servicesMilitaires |-> "aucun",
                  trimestresServicesMilitaires |-> 0]] :
      quotite \in {0, 50, 70, 100}, autres \in {0, 40, 100} }

\* departure dates around the 90th and the 105th quarter of the careers below,
\* and two dates that are not after the hire date
DatesDepartDurees ==
  {Date(a, m, j) : a \in 2021..2022, m \in 1..12, j \in {1, 15}}
  \cup {Date(1990, 1, 1), Date(1995, 1, 1)}

\* one profile at a range of departure dates
AppelsDureesAuDepart ==
  { [op |-> "calculerDurees", anneeNaissance |-> 1970,
     donnees |-> [dateEntreeSPP |-> entree, dateDepart |-> depart, quotite |-> quotite,
                  trimestresAutresRegimes |-> 0, anneesSPV |-> 0,
                  enfantsAvant2004 |-> 0,
                  servicesMilitaires |-> IF militaires = 0 THEN "aucun" ELSE "BSPP",
                  trimestresServicesMilitaires |-> militaires]] :
      entree \in {Date(1995, 1, 1), Date(2000, 1, 15)}, depart \in DatesDepartDurees,
      quotite \in {50, 70, 80, 100}, militaires \in {0, 20, 100} }

\* a hire on 2000-01-01 and the ends of service, every half year
AppelsTrimestresServicesEffectifs ==
  { [op |-> "calculerTrimestresServicesEffectifs", dateEntree |-> Date(2000, 1, 1),
     dateFin |-> fin, quotite |-> quotite] :
      fin \in {Date(2000 + annees, mois, 1) : annees \in 0..MaxAnneesServices,
                                              mois \in {1, 7}}
               \cup {Date(1999, 1, 1), DateNulle},
      quotite \in {50, 70, 80, 100} }

AppelsBonificationCinquieme ==
  { [op |-> "calculerBonificationCinquieme", trimestresServicesActifs |-> trimestres] :
      trimestres \in 0..MaxTrimestres }

\* a full-rate date between the opening age and the age limit
AppelsScenariosSurcote ==
  { [op |-> "simulerScenariosSurcote",
     donneesBase |-> [dateNaissance |-> naissance,
                      trimestresRequis |-> getDureeAssuranceRequise(naissance.a)],
     dateTauxPlein |-> dateAtteindreAgeAvecMois(naissance, age, mois),
     pensionTauxPlein |-> pension] :
      naissance \in NaissancesCohortes, age \in AGES_OUVERTURE_DROITS..AGES_LIMITE_ACTIVITE,
      mois \in MoisDepart, pension \in {150000, 213457} }

\* agents who declare military quarters with the kind of service 'aucun'
ProfilsSansServicesMilitaires ==
  { [dateNaissance |-> naissance, dateEntreeSPP |-> entree, quotite |-> quotite,
     trimestresAutresRegimes |-> 0, anneesSPV |-> 0, enfantsAvant2004 |-> 0,
     servicesMilitaires |-> "aucun",
     trimestresServicesMilitaires |-> militaires * 4] :
      naissance \in NaissancesCohortes,
      entree \in {Date(2000, 1, 1), Date(2012, 3, 15)},
      quotite \in {50, 100}, militaires \in {0, MaxAnneesMilitaires} }

AppelsSansServicesMilitaires ==
  { [op |-> "genererScenariosDepart", donnees |-> profil] :
      profil \in ProfilsSansServicesMilitaires }
  \cup { [op |-> "verifierEligibiliteAgeAnticipe", donnees |-> profil] :
           profil \in ProfilsSansServicesMilitaires \cup ProfilsDepart }
  \cup { [op |-> "calculerDurees", anneeNaissance |-> profil.dateNaissance.a,
          donnees |-> donneesServices(profil, calculerDateLimite(profil.dateNaissance))] :
           profil \in ProfilsSansServicesMilitaires }

AppelsDureeAssuranceRequise ==
  { [op |-> "getDureeAssuranceRequise", anneeNaissance |-> annee] :
      annee \in MinAnneeNaissance..MaxAnneeNaissance }

Appels ==
  AppelsTrimestresDecote \cup AppelsDateTauxPlein \cup AppelsScenariosDepart
  \cup AppelsDurees \cup AppelsSurcote \cup AppelsTauxLiquidationBrut
  \cup AppelsMinimumGaranti \cup AppelsPension \cup AppelsPointMortSurcote
  \cup AppelsDureeDateTauxPlein \cup AppelsDureesAuDepart
  \cup AppelsTrimestresServicesEffectifs \cup AppelsBonificationCinquieme
  \cup AppelsScenariosSurcote \cup AppelsSansServicesMilitaires
  \cup AppelsDureeAssuranceRequise

InitFonctions ==
  /\ formulaire = FormulaireVide
  /\ appState = [profil |-> Nul, resultats |-> Nul, isCalculated |-> FALSE]
  /\ conteneur = "placeholder"
  /\ notification = "aucune"
  /\ appel \in Appels
  /\ retour = AucunRetour
  /\ horloge = HorlogeInitiale
  /\ formState = EtatFormulaireInitial
  /\ minuteries = 0
  /\ exportation = [fonction |-> "aucune"]

Retourner(op, valeur) ==
  /\ appel.op = op
  /\ ~retour.fait
  /\ retour' = [fait |-> TRUE, valeur |-> valeur]
  /\ UNCHANGED <<formulaire, appState, conteneur, notification, appel, horloge,
                 formState, minuteries, exportation>>

AppelCalculerTrimestresDecote ==
  /\ appel.op = "calculerTrimestresDecote"
  /\ Retourner("calculerTrimestresDecote",
               calculerTrimestresDecote(appel.dateNaissance, appel.dateDepart,
                                        appel.trimestresAssurance, appel.trimestresRequis))

AppelCalculerDateTauxPlein ==
  /\ appel.op = "calculerDateTauxPlein"
  /\ Retourner("calculerDateTauxPlein", calculerDateTauxPlein(appel.donnees))

AppelGenererScenariosDepart ==
  /\ appel.op = "genererScenariosDepart"
  /\ Retourner("genererScenariosDepart", genererScenariosDepart(appel.donnees))

AppelCalculerDurees ==
  /\ appel.op = "calculerDurees"
  /\ Retourner("calculerDurees", calculerDurees(appel.donnees, appel.anneeNaissance))

AppelCalculerSurcote ==
  /\ appel.op = "calculerSurcote"
  /\ Retourner("calculerSurcote", calculerSurcote(appel.donnees))

AppelCalculerTauxLiquidationBrut ==
  /\ appel.op = "calculerTauxLiquidationBrut"
  /\ Retourner("calculerTauxLiquidationBrut",
               calculerTauxLiquidationBrut(appel.trimestresLiquidables,
                                           appel.trimestresRequis))

AppelCalculerMinimumGaranti ==
  /\ appel.op = "calculerMinimumGaranti"
  /\ Retourner("calculerMinimumGaranti",
               calculerMinimumGaranti(appel.trimestresLiquidables, appel.trimestresRequis))

AppelCalculerPension ==
  /\ appel.op = "calculerPension"
  /\ Retourner("calculerPension", calculerPension(appel.donnees))

AppelCalculerPointMortSurcote ==
  /\ appel.op = "calculerPointMortSurcote"
  /\ Retourner("calculerPointMortSurcote",
               calculerPointMortSurcote(appel.salaireMensuelNet, appel.pensionSansSurcote,
                                        appel.pensionAvecSurcote, appel.anneesTravailSupp))

AppelDureeCalculerDateTauxPlein ==
  /\ appel.op = "duree.calculerDateTauxPlein"
  /\ Retourner("duree.calculerDateTauxPlein",
               dureeCalculerDateTauxPlein(appel.donnees, appel.anneeNaissance, aujourdhui))

AppelCalculerTrimestresServicesEffectifs ==
  /\ appel.op = "calculerTrimestresServicesEffectifs"
  /\ Retourner("calculerTrimestresServicesEffectifs",
               calculerTrimestresServicesEffectifs(appel.dateEntree, appel.dateFin,
                                                   appel.quotite))

AppelCalculerBonificationCinquieme ==
  /\ appel.op = "calculerBonificationCinquieme"
  /\ Retourner("calculerBonificationCinquieme",
               calculerBonificationCinquieme(appel.trimestresServicesActifs))

AppelSimulerScenariosSurcote ==
  /\ appel.op = "simulerScenariosSurcote"
  /\ Retourner("simulerScenariosSurcote",
               simulerScenariosSurcote(appel.donneesBase, appel.dateTauxPlein,
                                       appel.pensionTauxPlein))

AppelVerifierEligibiliteAgeAnticipe ==
  /\ appel.op = "verifierEligibiliteAgeAnticipe"
  /\ Retourner("verifierEligibiliteAgeAnticipe",
               verifierEligibiliteAgeAnticipe(appel.donnees))

AppelGetDureeAssuranceRequise ==
  /\ appel.op = "getDureeAssuranceRequise"
  /\ Retourner("getDureeAssuranceRequise", getDureeAssuranceRequise(appel.anneeNaissance))

NextFonctions ==
  \/ AppelCalculerTrimestresDecote
  \/ AppelCalculerDateTauxPlein
  \/ AppelGenererScenariosDepart
  \/ AppelCalculerDurees
  \/ AppelCalculerSurcote
  \/ AppelCalculerTauxLiquidationBrut
  \/ AppelCalculerMinimumGaranti
  \/ AppelCalculerPension
  \/ AppelCalculerPointMortSurcote
  \/ AppelDureeCalculerDateTauxPlein
  \/ AppelCalculerTrimestresServicesEffectifs
  \/ AppelCalculerBonificationCinquieme
  \/ AppelSimulerScenariosSurcote
  \/ AppelVerifierEligibiliteAgeAnticipe
  \/ AppelGetDureeAssuranceRequise

SpecFonctions == InitFonctions /\ [][NextFonctions]_vars

\* the call whose return value the state holds
Retourne(op) == appel.op = op /\ retour.fait

---------------------------------------------------------------------------
(* Properties                                                              *)

\* C1: the three scenarios of genererScenariosDepart are ordered in time:
\* date of "limite" >= date of "taux_plein" >= date of "anticipé".
ScenariosOrdonnes ==
  Retourne("genererScenariosDepart") =>
    /\ Ord(retour.valeur[3].date) >= Ord(retour.valeur[2].date)
    /\ Ord(retour.valeur[2].date) >= Ord(retour.valeur[1].date)

\* the reduction quarters the cohort's cancellation date gives
DecoteSelonCohorte(dateNaissance, dateDepart, trimestresAssurance, trimestresRequis) ==
  LET annulation == calculerDateAnnulationDecote(dateNaissance)
  IN  IF Ord(dateDepart) >= Ord(annulation) THEN 0
      ELSE Min(Min(Max(0, trimestresRequis - trimestresAssurance),
                   calculerTrimestresEntreDates(dateDepart, annulation)),
               20)

\* C2: calculerTrimestresDecote returns min(max(0, required - insured),
\* quarters from the departure to the cohort's cancellation date, 20) for a
\* departure before that date, and 0 from that date on.
DecoteJusquAAnnulationCohorte ==
  Retourne("calculerTrimestresDecote") =>
    retour.valeur = DecoteSelonCohorte(appel.dateNaissance, appel.dateDepart,
                                       appel.trimestresAssurance, appel.trimestresRequis)

\* C3: when calculerDateTauxPlein answers atteintParDuree, calculerDurees at
\* the returned date counts at least the required quarters, and the date lies
\* between the opening-of-rights date and the cancellation date, both included.
TauxPleinParDureeAtteint ==
  (Retourne("calculerDateTauxPlein") /\ retour.valeur.atteintParDuree) =>
    LET donnees == appel.donnees
        anneeNaissance == donnees.dateNaissance.a
        durees == calculerDurees(donneesServices(donnees, retour.valeur.date),
                                 anneeNaissance)
    IN  /\ durees.trimestresAssuranceTotale >= getDureeAssuranceRequise(anneeNaissance)
        /\ Ord(calculerDateOuvertureDroits(donnees.dateNaissance))
             <= Ord(retour.valeur.date)
        /\ Ord(retour.valeur.date)
             <= Ord(calculerDateAnnulationDecote(donnees.dateNaissance))

\* a full rate by duration found after the opening date, part time
TauxPleinParDureeApresOuverture ==
  /\ Retourne("calculerDateTauxPlein")
  /\ retour.valeur.atteintParDuree
  /\ appel.donnees.quotite = 70
  /\ Ord(retour.valeur.date) > Ord(calculerDateOuvertureDroits(appel.donnees.dateNaissance))

\* C4: no core function returns NaN, Infinity or an invalid date, also with
\* zero required quarters, zero liquidable quarters, a zero work fraction or
\* a gain that is not positive.
AucunNaNNiInfini ==
  /\ Retourne("calculerMinimumGaranti") => estFini(retour.valeur)
  /\ Retourne("calculerPension") => estFini(retour.valeur.minimumGaranti)
  /\ Retourne("calculerPointMortSurcote") => estFini(retour.valeur.pointMortAnnees)
  /\ Retourne("duree.calculerDateTauxPlein") => retour.valeur # DateInvalide

\* C5: calculerDurees with a null hire date or a null departure date returns
\* every quarter count 0 and every condition flag false, whatever the other
\* fields.
DureesNullesSansDate ==
  (/\ Retourne("calculerDurees")
   /\ (estNulle(appel.donnees.dateEntreeSPP) \/ estNulle(appel.donnees.dateDepart))) =>
    /\ \A champ \in {"trimestresServicesEffectifs", "trimestresBonificationCinquieme",
                     "trimestresBonificationEnfants", "trimestresMajorationSPV",
                     "trimestresServicesMilitaires", "trimestresBonificationMilitaire",
                     "totalServicesActifs", "trimestresLiquidables",
                     "trimestresAssuranceTotale"} : retour.valeur[champ] = 0
    /\ ~retour.valeur.conditionServicesActifs
    /\ ~retour.valeur.conditionDureePension

\* C6: in the pension of the pipeline the prime-de-feu majoration is prorated
\* by SPP quarters / liquidable quarters exactly when SPP quarters are fewer
\* than the liquidable quarters and SPP quarters plus their fifth bonus are
\* fewer than the required quarters.
MajorationProratiseeSelonCarriere ==
  appState.isCalculated =>
    LET duree == appState.resultats.duree
        majoration == appState.resultats.pensionTauxPlein.majorationPrimeFeu
        aProratiser ==
          /\ duree.trimestresServicesEffectifs < duree.trimestresLiquidables
          /\ duree.trimestresServicesEffectifs + duree.trimestresBonificationCinquieme
               < appState.resultats.trimestresRequis
    IN  /\ majoration.proratisee = aProratiser
        /\ aProratiser =>
             majoration.tauxProratisation =
               MathRoundMulDiv(duree.trimestresServicesEffectifs, 10000,
                               duree.trimestresLiquidables)

\* C7: calculerSurcote is eligible exactly when the departure is on or after
\* birth + the cohort's sedentary legal age in years and months and the
\* insured quarters reach the required ones; otherwise 0 quarters, rate 0,
\* coefficient 1.
SurcoteDepuisAgeSedentaire ==
  Retourne("calculerSurcote") =>
    LET donnees == appel.donnees
        ageSedentaire == getAgeLegalSedentaire(donnees.dateNaissance)
        dateAgeSedentaire ==
          dateAtteindreAgeAvecMois(donnees.dateNaissance, ageSedentaire.ans,
                                   ageSedentaire.mois)
        attendu ==
          /\ Ord(donnees.dateDepart) >= Ord(dateAgeSedentaire)
          /\ donnees.trimestresAssurance >= donnees.trimestresRequis
    IN  /\ retour.valeur.eligible = attendu
        /\ ~retour.valeur.eligible =>
             /\ retour.valeur.trimestresSurcote = 0
             /\ retour.valeur.tauxSurcote = 0
             /\ retour.valeur.coefficientMajoration = 10000

\* C8: the NBI points are counted once.  Held 15 years or more: they are in
\* the indexed salary, the supplement is 0 and integreTIB is true.  Held less:
\* no point is in the indexed salary, integreTIB is not true and the
\* supplement is the prorated one (0 under one year).
NBICompteeUneFois ==
  appState.isCalculated =>
    LET data == collectFormData(formulaire)
        resultats == appState.resultats
        pension == resultats.pensionTauxPlein
        nbi == resultats.nbi
        integre == "integreTIB" \in DOMAIN nbi /\ nbi.integreTIB
        servicesMois == resultats.duree.trimestresLiquidables * 3
        moyenne ==
          IF data.pointsNBI = 0 \/ servicesMois = 0 THEN 0
          ELSE MathRoundMulDiv(data.pointsNBI * 100,
                               Min(data.dureeNBI * 12, servicesMois), servicesMois)
        prorata ==
          IF data.dureeNBI < 1 THEN 0
          ELSE MathRoundMulDiv(moyenne * pension.tauxLiquidationNet,
                               POINT_INDICE_VALEUR_MENSUELLE, 1000000000)
        TIB(points) ==
          MathRoundMulDiv(data.indiceBrut + points, POINT_INDICE_VALEUR_ANNUELLE, 1000)
    IN  IF data.dureeNBI >= 15
        THEN /\ pension.traitementIndiciaireAnnuel = TIB(data.pointsNBI)
             /\ \A i \in DOMAIN resultats.scenarios :
                  resultats.scenarios[i].pension.traitementIndiciaireAnnuel
                    = TIB(data.pointsNBI)
             /\ nbi.supplementMensuel = 0
             /\ integre
        ELSE /\ pension.traitementIndiciaireAnnuel = TIB(0)
             /\ \A i \in DOMAIN resultats.scenarios :
                  resultats.scenarios[i].pension.traitementIndiciaireAnnuel = TIB(0)
             /\ nbi.supplementMensuel = prorata
             /\ ~integre

\* points held 14 years: a supplement is paid and nothing is integrated
NBIProratisee ==
  /\ appState.isCalculated
  /\ formulaire.pointsNBI > 0
  /\ formulaire.dureeNBI = 14
  /\ appState.resultats.nbi.supplementMensuel > 0
  /\ appState.resultats.pensionTauxPlein.pointsNBIIntegres = 0

\* C9: the monthly RAFP annuity of the pipeline is total points x service
\* value x the age coefficient of the departure age / 12.
RenteRAFPAvecCoefficientAge ==
  appState.isCalculated =>
    LET pfr == appState.resultats.pfr
        coefficient == getCoefficientRAFPAge(appState.resultats.ageTauxPlein)
    IN  pfr.renteRAFPMensuelle =
          MathRoundMulDiv(pfr.totalPointsRAFP * coefficient,
                          PFR_VALEUR_SERVICE_POINT_RAFP, 12 * 1000 * 100)

\* C10: with liquidable quarters >= 0 and required quarters > 0 the gross
\* liquidation rate, of calculerTauxLiquidationBrut and of each scenario, is
\* at most 75 and is 75 exactly when liquidable >= required; it is 0 when
\* required <= 0.
TauxBrutPlafonne ==
  /\ Retourne("calculerTauxLiquidationBrut") =>
       IF appel.trimestresRequis <= 0 THEN retour.valeur.n = 0
       ELSE /\ retour.valeur.d > 0
            /\ retour.valeur.n <= TAUX_PLEIN * retour.valeur.d
            /\ (retour.valeur.n = TAUX_PLEIN * retour.valeur.d)
                 <=> (appel.trimestresLiquidables >= appel.trimestresRequis)
  /\ Retourne("genererScenariosDepart") =>
       \A i \in DOMAIN retour.valeur :
         LET scenario == retour.valeur[i]
             requis == getDureeAssuranceRequise(appel.donnees.dateNaissance.a)
         IN  /\ scenario.tauxLiquidation.d > 0
             /\ scenario.tauxLiquidation.n <= TAUX_PLEIN * scenario.tauxLiquidation.d
             /\ (scenario.tauxLiquidation.n = TAUX_PLEIN * scenario.tauxLiquidation.d)
                  <=> (scenario.trimestresLiquidables >= requis)

\* more liquidable than required quarters: the rate stays at 75
TauxBrutAuPlafond ==
  /\ Retourne("calculerTauxLiquidationBrut")
  /\ appel.trimestresRequis > 0
  /\ appel.trimestresLiquidables > appel.trimestresRequis
  /\ retour.valeur.n = TAUX_PLEIN * retour.valeur.d

\* C11: in every result of calculerPension the reduction quarters are within
\* 0..20 and the reduction coefficient is within [0.75, 1], however large the
\* shortfall in duration or in age.
DecoteBornee ==
  Retourne("calculerPension") =>
    /\ retour.valeur.trimestresDecote \in 0..20
    /\ retour.valeur.coefficientDecote \in 7500..10000

\* more than 20 quarters short both in duration and in age: 20 quarters, 0.75
DecoteAuPlafond ==
  /\ Retourne("calculerPension")
  /\ appel.donnees.trimestresRequis - appel.donnees.trimestresAssurance > 20
  /\ calculerTrimestresEntreDates(
       appel.donnees.dateDepart,
       calculerDateAnnulationDecote(appel.donnees.dateNaissance)) > 20
  /\ retour.valeur.trimestresDecote = 20
  /\ retour.valeur.coefficientDecote = 7500

\* C12: for one profile and two departure dates d1 <= d2, calculerDurees
\* counts at least as many insured quarters (trimestresAssuranceTotale) at d2
\* as at d1, at every work fraction.
AssuranceCroissante ==
  (Retourne("calculerDurees") /\ ~estNulle(appel.donnees.dateDepart)) =>
    \A depart \in DatesDepartDurees :
      Ord(depart) >= Ord(appel.donnees.dateDepart) =>
        calculerDurees([appel.donnees EXCEPT !.dateDepart = depart],
                       appel.anneeNaissance).trimestresAssuranceTotale
          >= retour.valeur.trimestresAssuranceTotale

\* part time: a later departure that counts more insured quarters
AssuranceAccrue ==
  /\ Retourne("calculerDurees")
  /\ appel.donnees.quotite = 70
  /\ retour.valeur.trimestresServicesEffectifs > 0
  /\ \E depart \in DatesDepartDurees :
       /\ Ord(depart) > Ord(appel.donnees.dateDepart)
       /\ calculerDurees([appel.donnees EXCEPT !.dateDepart = depart],
                         appel.anneeNaissance).trimestresAssuranceTotale
            > retour.valeur.trimestresAssuranceTotale

\* C13: for a profile with a birth date and a hire date genererScenariosDepart
\* returns exactly three scenarios, in the order "anticipé", "taux_plein",
\* "limite", whether or not the full rate is reached by duration.
TroisScenarios ==
  Retourne("genererScenariosDepart") =>
    /\ Len(retour.valeur) = 3
    /\ retour.valeur[1].type = "anticipé"
    /\ retour.valeur[2].type = "taux_plein"
    /\ retour.valeur[3].type = "limite"

\* three scenarios although quarters are still missing at the cancellation age
TroisScenariosSansDuree ==
  /\ Retourne("genererScenariosDepart")
  /\ Len(retour.valeur) = 3
  /\ retour.valeur[2].tauxPleinParAge
  /\ retour.valeur[2].trimestresManquants > 0
  /\ retour.valeur[2].trimestresAssurance
       < getDureeAssuranceRequise(appel.donnees.dateNaissance.a)

\* C14: for an eligible departure the surcote quarters are the quarters from
\* the later of the full-rate date and the sedentary-legal-age date to the
\* departure, the rate is 1.25 % per quarter without a cap (more than 20
\* quarters give more than 25 %) and the coefficient is 1 + rate / 100.
SurcoteSansPlafond ==
  (Retourne("calculerSurcote") /\ retour.valeur.eligible) =>
    LET donnees == appel.donnees
        ageSedentaire == getAgeLegalSedentaire(donnees.dateNaissance)
        dateAgeSedentaire ==
          dateAtteindreAgeAvecMois(donnees.dateNaissance, ageSedentaire.ans,
                                   ageSedentaire.mois)
        debut == IF Ord(donnees.dateTauxPlein) >= Ord(dateAgeSedentaire)
                 THEN donnees.dateTauxPlein ELSE dateAgeSedentaire
        trimestres == calculerTrimestresEntreDates(debut, donnees.dateDepart)
    IN  /\ retour.valeur.trimestresSurcote = trimestres
        /\ retour.valeur.tauxSurcote = trimestres * 125
        /\ retour.valeur.coefficientMajoration = 10000 + trimestres * 125

\* more than 20 quarters after a full-rate date that follows the sedentary age
SurcoteAuDelaDeVingtTrimestres ==
  /\ Retourne("calculerSurcote")
  /\ retour.valeur.eligible
  /\ Ord(appel.donnees.dateTauxPlein)
       > Ord(calculerDateAnnulationDecote(appel.donnees.dateNaissance))
  /\ retour.valeur.trimestresSurcote > 20
  /\ retour.valeur.tauxSurcote > 2500

\* C15: the final gross monthly pension of calculerPension is the larger of
\* base pension + prime-de-feu majoration and the guaranteed minimum prorated
\* by liquidable / required quarters: the minimum replaces the computed amount
\* and is never added to it, and minimumGarantiApplique is true exactly when
\* the computed amount is below the minimum.
MinimumGarantiRemplace ==
  (Retourne("calculerPension") /\ appel.donnees.trimestresRequis > 0) =>
    LET calculee == retour.valeur.pensionBaseMensuelle
                    + retour.valeur.majorationPrimeFeu.mensuelle
        plancher ==
          MathRoundMulDiv(MINIMUM_GARANTI_MONTANT_MENSUEL_2026,
                          Min(appel.donnees.trimestresLiquidables,
                              appel.donnees.trimestresRequis),
                          appel.donnees.trimestresRequis)
    IN  /\ retour.valeur.pensionBruteMensuelle = Max(calculee, plancher)
        /\ retour.valeur.minimumGarantiApplique <=> (calculee < plancher)
        /\ retour.valeur.pensionBruteAnnuelle = 12 * Max(calculee, plancher)

\* a computed pension with a majoration, below the minimum: the minimum is paid
MinimumGarantiVerse ==
  /\ Retourne("calculerPension")
  /\ appel.donnees.trimestresRequis > 0
  /\ retour.valeur.minimumGarantiApplique
  /\ retour.valeur.majorationPrimeFeu.mensuelle > 0
  /\ retour.valeur.pensionBaseMensuelle > 0
  /\ retour.valeur.pensionBruteMensuelle = retour.valeur.minimumGaranti.v

TrimestresEffectifsPartieEntiere ==
  (Retourne("calculerTrimestresServicesEffectifs") /\ ~estNulle(appel.dateFin)) =>
    /\ Ord(appel.dateFin) <= Ord(appel.dateEntree) => retour.valeur = 0
    /\ Ord(appel.dateFin) > Ord(appel.dateEntree) =>
         retour.valeur =
           (calculerTrimestresEntreDates(appel.dateEntree, appel.dateFin)
            * appel.quotite) \div 100
    /\ \A annees \in 1..(MaxAnneesServices + 1) :
         appel.dateFin = setFullYearPlus(appel.dateEntree, annees) =>
           retour.valeur = (4 * annees * appel.quotite) \div 100

TauxPleinPremierMois ==
  (Retourne("calculerDateTauxPlein") /\ retour.valeur.atteintParDuree) =>
    LET donnees == appel.donnees
        recherche ==
          rechercheMoisParMois(donnees,
                               calculerDateOuvertureDroits(donnees.dateNaissance),
                               retour.valeur.date)
    IN  recherche.trouve =>
          /\ recherche.date.a = retour.valeur.date.a
          /\ recherche.date.m = retour.valeur.date.m

\* C20: calculerDateTauxPlein answers atteintParAge, with the cancellation
\* date as date, only when the quarters insured at the cancellation date are
\* still below the required quarters, and trimestresManquants is then
\* required - insured at that date, a value above 0; exactly one of
\* atteintParDuree and atteintParAge is true in every result.
TauxPleinParAgeAvecManque ==
  Retourne("calculerDateTauxPlein") =>
    LET donnees == appel.donnees
        anneeNaissance == donnees.dateNaissance.a
        dateAnnulationDecote == calculerDateAnnulationDecote(donnees.dateNaissance)
        assurance ==
          calculerDurees(donneesServices(donnees, dateAnnulationDecote),
                         anneeNaissance).trimestresAssuranceTotale
        trimestresRequis == getDureeAssuranceRequise(anneeNaissance)
    IN  /\ retour.valeur.atteintParDuree # retour.valeur.atteintParAge
        /\ retour.valeur.atteintParAge =>
             /\ retour.valeur.date = dateAnnulationDecote
             /\ assurance < trimestresRequis
             /\ retour.valeur.trimestresManquants = trimestresRequis - assurance
             /\ retour.valeur.trimestresManquants > 0

\* C21: the age-limit scenario of genererScenariosDepart carries surcote = TRUE
\* only if the quarters insured at the age-limit date exceed the required
\* quarters, the age-limit date is strictly after the full-rate date, and the
\* age-limit date is not before the day the cohort's sedentary legal age is
\* reached.
SurcoteLimiteDepuisAgeSedentaire ==
  (Retourne("genererScenariosDepart") /\ retour.valeur[3].surcote) =>
    LET donnees == appel.donnees
        limite == retour.valeur[3]
        ageSedentaire == getAgeLegalSedentaire(donnees.dateNaissance)
    IN  /\ limite.type = "limite"
        /\ limite.trimestresAssurance
             > getDureeAssuranceRequise(donnees.dateNaissance.a)
        /\ Ord(limite.date) > Ord(retour.valeur[2].date)
        /\ Ord(limite.date)
             >= Ord(dateAtteindreAgeAvecMois(donnees.dateNaissance, ageSedentaire.ans,
                                             ageSedentaire.mois))

\* C22: every scenario of simulerScenariosSurcote, for a departure N years
\* after the full-rate date with required + 4N insured quarters, carries 4N
\* surcote quarters, a rate of 4N x 1.25 % and a pension equal to the
\* full-rate pension x (1 + rate / 100).
ScenariosSurcoteQuatreParAn ==
  Retourne("simulerScenariosSurcote") =>
    \A i \in DOMAIN retour.valeur :
      LET scenario == retour.valeur[i]
          annees == scenario.anneesSupplementaires
      IN  /\ annees = i
          /\ scenario.dateDepart = setFullYearPlus(appel.dateTauxPlein, annees)
          /\ scenario.trimestresSurcote = 4 * annees
          /\ scenario.tauxSurcote = 4 * annees * 125
          /\ scenario.pensionMensuelle
               = MathRoundMulDiv(appel.pensionTauxPlein, 10000 + 4 * annees * 125, 10000)

\* C23: the date of the earliest scenario is a date at which departure is
\* allowed: it is not before the opening-of-rights date, and calculerDurees at
\* that date satisfies the 17-year condition (effective quarters, weighted by
\* the work fraction, plus the counted military quarters >= 68).
DepartAuPlusTotPermis ==
  Retourne("genererScenariosDepart") =>
    LET donnees == appel.donnees
        auPlusTot == retour.valeur[1]
        durees == calculerDurees(donneesServices(donnees, auPlusTot.date),
                                 donnees.dateNaissance.a)
    IN  /\ auPlusTot.type = "anticipé"
        /\ Ord(auPlusTot.date) >= Ord(calculerDateOuvertureDroits(donnees.dateNaissance))
        /\ durees.conditionServicesActifs
        /\ durees.trimestresServicesEffectifs + durees.trimestresServicesMilitaires
             >= SERVICES_DUREE_MIN_SERVICES_ACTIFS

\* C24: when the kind of military service is 'aucun', a declared count of
\* military quarters has no effect: the durations, the early-eligibility
\* result and the three scenario dates are those of the same profile with a
\* count of 0.
ServicesMilitairesAucunSansEffet ==
  (retour.fait /\ appel.op \in {"calculerDurees", "verifierEligibiliteAgeAnticipe",
                                "genererScenariosDepart"}
   /\ appel.donnees.servicesMilitaires = "aucun") =>
    LET sansServices == [appel.donnees EXCEPT !.trimestresServicesMilitaires = 0]
    IN  /\ appel.op = "calculerDurees" =>
             retour.valeur = calculerDurees(sansServices, appel.anneeNaissance)
        /\ appel.op = "verifierEligibiliteAgeAnticipe" =>
             retour.valeur = verifierEligibiliteAgeAnticipe(sansServices)
        /\ appel.op = "genererScenariosDepart" =>
             \A i \in 1..3 :
               retour.valeur[i].date = genererScenariosDepart(sansServices)[i].date

\* C25: getDureeAssuranceRequise answers for every birth year and never
\* decreases with it: a year outside the table gets the value of the nearest
\* tabulated cohort (167 below 1960, 172 above 1973), so no earlier cohort is
\* required more quarters than a later one.
DureeRequiseCroissante ==
  Retourne("getDureeAssuranceRequise") =>
    /\ retour.valeur \in 167..172
    /\ appel.anneeNaissance < 1960 => retour.valeur = 167
    /\ appel.anneeNaissance > 1973 => retour.valeur = 172
    /\ \A annee \in MinAnneeNaissance..MaxAnneeNaissance :
         annee <= appel.anneeNaissance =>
           getDureeAssuranceRequise(annee) <= retour.valeur

\* C26: for every scenario in the results of effectuerCalculs, the decote flag
\* of the scenario is true exactly when its pension was computed with
\* trimestresDecote > 0, that is with a reduction coefficient below 1; the
\* pension of the full-rate scenario has 0 reduction quarters.
DecoteDuScenarioSelonPension ==
  appState.isCalculated =>
    \A i \in DOMAIN appState.resultats.scenarios :
      LET scenario == appState.resultats.scenarios[i]
      IN  /\ scenario.decote <=> (scenario.pension.trimestresDecote > 0)
          /\ scenario.decote <=> (scenario.pension.coefficientDecote < 10000)
          /\ scenario.type = "taux_plein" => scenario.pension.trimestresDecote = 0

---------------------------------------------------------------------------
(* The page: form steps, the submit timer of the last step, the exports    *)

\* the forms the user leaves on the page: blank, complete and valid,
\* complete with an index outside the scale
FormulairesInterface ==
  { FormulaireVide,
    [FormulaireVide EXCEPT !.dateNaissance = Date(1965, 6, 15),
                           !.dateEntreeSPP = Date(2000, 1, 1), !.indiceBrut = 500],
    [FormulaireVide EXCEPT !.dateNaissance = Date(1965, 6, 15),
                           !.dateEntreeSPP = Date(2000, 1, 1), !.indiceBrut = 300] }

\* the user changes the fields of the form, at any step and whether or not
\* a calculation is displayed
ModifierFormulaire ==
  /\ \E saisie \in FormulairesInterface : saisie # formulaire /\ formulaire' = saisie
  /\ UNCHANGED <<appState, conteneur, notification, appel, retour, horloge,
                 formState, minuteries, exportation>>

\* validateStep(step): the required inputs of the step are set by the page,
\* so both outcomes are possible; it records the errors in formState
validateStep(step, isValid) == [formState EXCEPT !.errors = ~isValid]

\* a Next button that moves on whatever validateStep answered
goToNextStepSansValidation ==
  \E isValid \in BOOLEAN :
    LET valide == validateStep(formState.currentStep, isValid)
    IN  /\ IF valide.currentStep < valide.totalSteps
           THEN /\ formState' = [valide EXCEPT !.currentStep = @ + 1]
                /\ showStep(valide.currentStep + 1)
           ELSE /\ formState' = valide
                /\ UNCHANGED minuteries
        /\ UNCHANGED <<formulaire, appState, conteneur, notification, appel,
                       retour, horloge, exportation>>

goToNextStep ==
  \E isValid \in BOOLEAN :
    LET valide == validateStep(formState.currentStep, isValid)
    IN  /\ IF ~isValid
           THEN /\ notification' = "error"
                /\ formState' = valide
                /\ UNCHANGED minuteries
           ELSE /\ UNCHANGED notification
                /\ IF valide.currentStep < valide.totalSteps
                   THEN /\ formState' = [valide EXCEPT !.currentStep = @ + 1]
                        /\ showStep(valide.currentStep + 1)
                   ELSE /\ formState' = valide
                        /\ UNCHANGED minuteries
        /\ UNCHANGED <<formulaire, appState, conteneur, appel, retour, horloge,
                       exportation>>

goToPreviousStep ==
  /\ IF formState.currentStep > 1
     THEN /\ formState' = [formState EXCEPT !.currentStep = @ - 1]
          /\ showStep(formState.currentStep - 1)
     ELSE UNCHANGED <<formState, minuteries>>
  /\ UNCHANGED <<formulaire, appState, conteneur, notification, appel, retour,
                 horloge, exportation>>

\* setupNavigationListeners: a click on a step of the stepper; its data-step
\* is set by the page: a step of the form or a value on either side of them
ClicStepper ==
  /\ \E targetStep \in 0..(formState.totalSteps + 1) :
       IF targetStep < formState.currentStep
       THEN goToStep(targetStep)
       ELSE UNCHANGED <<formState, minuteries>>
  /\ UNCHANGED <<formulaire, appState, conteneur, notification, appel, retour,
                 horloge, exportation>>

resetForm ==
  /\ formulaire' = FormulaireVide
  /\ formState' = EtatFormulaireInitial
  /\ showStep(1)
  /\ UNCHANGED <<appState, conteneur, notification, appel, retour, horloge,
                 exportation>>

\* the 100 ms timer set on arriving at the last step fires: it dispatches the
\* submit event, whatever the step shown by then
MinuterieEchue ==
  /\ minuteries > 0
  /\ minuteries' = minuteries - 1
  /\ handleSubmit

\* exportation holds the export function called last and its arguments;
\* reading donnees of a null profil throws
handleExportPDF ==
  /\ IF ~appState.isCalculated \/ appState.resultats = Nul
     THEN /\ notification' = "warning"
          /\ UNCHANGED exportation
     ELSE /\ exportation' =
               IF appState.profil = Nul
               THEN [fonction |-> "TypeError"]
               ELSE [fonction |-> "exporterPDF", resultats |-> appState.resultats,
                     donnees |-> appState.profil.donnees]
          /\ UNCHANGED notification
  /\ UNCHANGED <<formulaire, appState, conteneur, appel, retour, horloge,
                 formState, minuteries>>

handleExportCSV ==
  /\ IF ~appState.isCalculated \/ appState.resultats = Nul
     THEN /\ notification' = "warning"
          /\ UNCHANGED exportation
     ELSE /\ exportation' =
               IF appState.profil = Nul
               THEN [fonction |-> "TypeError"]
               ELSE [fonction |-> "exporterCSV", resultats |-> appState.resultats,
                     donnees |-> appState.profil.donnees]
          /\ notification' = IF appState.profil = Nul THEN notification ELSE "success"
  /\ UNCHANGED <<formulaire, appState, conteneur, appel, retour, horloge,
                 formState, minuteries>>

NextInterface ==
  \/ ModifierFormulaire
  \/ goToNextStep
  \/ goToPreviousStep
  \/ ClicStepper
  \/ resetForm
  \/ SoumettreFormulaire
  \/ MinuterieEchue
  \/ handleNewSimulation
  \/ handleExportPDF
  \/ handleExportCSV

SpecInterface == Init /\ [][NextInterface]_vars

---------------------------------------------------------------------------
\* C27: whatever the submissions, failed submissions, new simulations and
\* exports made so far, isCalculated is true exactly when resultats and
\* profil are both stored, and every call of exporterPDF or exporterCSV is
\* made in such a state, with the stored resultats and the stored profil's
\* donnees
ExportAvecCalculStocke ==
  /\ [](appState.isCalculated
          <=> (appState.resultats # Nul /\ appState.profil # Nul))
  /\ [][exportation' # exportation
          => /\ appState.isCalculated
             /\ appState.resultats # Nul
             /\ appState.profil # Nul
             /\ exportation'.fonction \in {"exporterPDF", "exporterCSV"}
             /\ exportation'.resultats = appState.resultats
             /\ exportation'.donnees = appState.profil.donnees]_vars

\* a PDF export made of the results on display
ExportPDFApresCalcul ==
  /\ appState.isCalculated
  /\ exportation.fonction = "exporterPDF"
  /\ exportation.resultats = appState.resultats
  /\ notification = "success"

---------------------------------------------------------------------------
\* C28: a submission that is rejected, for a missing required field or an
\* invalid profile, leaves no result of an earlier submission stored, so
\* that nothing can be exported after it
RejetSansResultatAnterieur ==
  [][(notification' = "error" /\ handleSubmit)
       => (~appState'.isCalculated /\ appState'.resultats = Nul)]_vars

---------------------------------------------------------------------------
\* C29: the submit timer set on arriving at the last step has no effect when
\* it fires while the form shows another step (after a return to an earlier
\* step or a new simulation): no calculation is performed and stored
MinuterieSansEffetHorsDerniereEtape ==
  [][(minuteries' < minuteries /\ formState.currentStep # formState.totalSteps)
       => appState' = appState]_vars

---------------------------------------------------------------------------
====
